---- MODULE Spec2Model ----
(***************************************************************************)
(* Model of the breakup animation state machine of the NEB visualisation: *)
(* BreakupAnimator (animations) driving the effects built by               *)
(* ParticleSystem (particles).                                             *)
(*                                                                         *)
(* Numbers are fixed point.  Positions, radii and distances are in 1/1000  *)
(* of a scene unit, velocities in 1/1000000 of a scene unit per tick, the  *)
(* speed multiplier in tenths, life and decay in 1/1000, animation.time in *)
(* 1/10000 s and resonanceTime in tenths of a frame.  Vectors are triples. *)
(* An object of the scene graph is known by its id <<gen, n>>: gen numbers *)
(* the animation it belongs to, n is 0 for the projectile the caller built *)
(* and counts the objects the animation created after that.                *)
(***************************************************************************)
EXTENDS Integers, Sequences, FiniteSets

VARIABLES
    currentAnimation,   \* BreakupAnimator.currentAnimation (gen 0: null)
    isPlaying,          \* BreakupAnimator.isPlaying
    speed,              \* BreakupAnimator.speed, in tenths
    scene,              \* ids of the objects that are members of the scene
    targetVisible,      \* target.visible
    trailsEnabled,      \* ParticleSystem.trailsEnabled
    pending,            \* animation the caller created and has not played yet
    nextGen,            \* number of the next animation the caller creates
    speedChanges,       \* setSpeed calls made so far
    faulted,            \* the current animation was abandoned by a fault
    op,                 \* the last call made on the animator
    ret,                \* what the last update call returned
    prevPhase,          \* phase of currentAnimation before the last call
    frame               \* parity of the frames the render loop has run

vars == <<currentAnimation, isPlaying, speed, scene, targetVisible,
          trailsEnabled, pending, nextGen, speedChanges, faulted, op, ret,
          prevPhase, frame>>

----------------------------------------------------------------------------
(* Bounds of the model                                                     *)

MaxAnims == 1
MaxSpeedChanges == 1
PosCap == 21000
TimeCap == 50000
ParticleCount == 1
TrailLen == 2
DeadLifeCap == 1000

Speeds == {5, 20}
ImpactParams == {2000, 4000}
Kinds == {"elastic", "nonelastic", "inelastic"}
ProjectileTypes == {"deuteron", "li6"}
GammaCounts == 3 .. 5
ExplosionDecays == {20, 35}
Faults == {"none", "early", "late"}

----------------------------------------------------------------------------
(* Constants of the program, in the units above                            *)

TargetX == 5000
StartOffset == 12000
InitialVx == 200000
Delta == 160
InteractionRadius == 6000
ElasticBreakupDist == 3500
NonelasticBreakupDist == 3000
ExcitationDist == 3500
EscapeDist == 15000
CaptureDist == 2200
MinForceDist == 500
PassOffset == 5000
AbsorbSpeed == 80
MaxResonanceTime == 800
ElasticK == 3000
NonelasticK == 2000
InelasticK == 2500
FragmentK == 1000
FullLife == 1000
GammaDecay == 25
GammaSpeed == 800
WaveDecay == 20
WaveGrowth == 150
WaveStartRadius == 100
CompoundDecay == 8
ExcitedDecay == 15
FlashDecay == 30
ExplosionSpeed == 1000

TargetPos == <<TargetX, 0, 0>>

----------------------------------------------------------------------------
(* THREE.Vector3 arithmetic                                                *)

Min(a, b) == IF a < b THEN a ELSE b
Max(a, b) == IF a > b THEN a ELSE b
Abs(a) == IF a < 0 THEN -a ELSE a

\* division rounding toward zero, as truncation of the exact quotient
TruncDiv(a, b) == IF a >= 0 THEN a \div b ELSE -((-a) \div b)

\* coordinates farther out than PosCap are represented by PosCap
Clamp(c) == Max(-PosCap, Min(PosCap, c))

VAdd(p, q) == <<p[1] + q[1], p[2] + q[2], p[3] + q[3]>>
VSub(p, q) == <<p[1] - q[1], p[2] - q[2], p[3] - q[3]>>
VClamp(p) == <<Clamp(p[1]), Clamp(p[2]), Clamp(p[3])>>

\* bisection for the floor of the square root of t[1] between t[2] and t[3]
SqrtSearch[t \in Nat \X Nat \X Nat] ==
    IF t[2] >= t[3] THEN t[2]
    ELSE LET mid == (t[2] + t[3] + 1) \div 2
         IN  IF mid * mid <= t[1] THEN SqrtSearch[<<t[1], mid, t[3]>>]
                                  ELSE SqrtSearch[<<t[1], t[2], mid - 1>>]

\* floor of the square root
ISqrt(n) == SqrtSearch[<<n, 0, 46340>>]

VLength(p) == ISqrt(p[1] * p[1] + p[2] * p[2] + p[3] * p[3])

\* Vector3.distanceTo
Dist(p, q) == VLength(VSub(p, q))

\* a point with a coordinate at PosCap stands for every point out of range
OutOfRange(p) == \E i \in 1 .. 3 : Abs(p[i]) >= PosCap

\* position.add(velocity.clone().multiplyScalar(speed)); an object that has
\* left the range is moving away from the target and is left where it is
MoveAs(pos, vel, sp) ==
    IF OutOfRange(pos) THEN pos
    ELSE VClamp(<<pos[1] + TruncDiv(vel[1] * sp, 10000),
                  pos[2] + TruncDiv(vel[2] * sp, 10000),
                  pos[3] + TruncDiv(vel[3] * sp, 10000)>>)

\* subVectors(pos, target).normalize().multiplyScalar(k / (d * d) * speed):
\* k in 1/1000000, d the distance of pos to the target (d > 0 in every
\* state the inputs of the model reach)
CoulombForce(pos, k, d, sp) ==
    LET mag == (((k * 100000) \div Max(1, (d * d) \div 10)) * sp) \div 10
        r == VSub(pos, TargetPos)
    IN  <<TruncDiv(mag * r[1], Max(1, d)),
          TruncDiv(mag * r[2], Max(1, d)),
          TruncDiv(mag * r[3], Max(1, d))>>

\* subVectors(target, pos).normalize().multiplyScalar(0.08 * speed)
TowardTarget(pos, d, sp) ==
    LET r == VSub(TargetPos, pos)
        step == (AbsorbSpeed * sp) \div 10
    IN  <<TruncDiv(step * r[1], Max(1, d)),
          TruncDiv(step * r[2], Max(1, d)),
          TruncDiv(step * r[3], Max(1, d))>>

----------------------------------------------------------------------------
(* ParticleSystem: construction of particles, trails and effects           *)

Zero3 == <<0, 0, 0>>

Particle(id, type, charge, pos, vel) ==
    [id |-> id, type |-> type, charge |-> charge, pos |-> pos, vel |-> vel]

createProton(id, pos) == Particle(id, "proton", 1, pos, Zero3)
createNeutron(id, pos) == Particle(id, "neutron", 0, pos, Zero3)
createAlpha(id, pos) == Particle(id, "alpha", 2, pos, Zero3)
createDeuteron(id, pos) == Particle(id, "deuteron", 1, pos, Zero3)

\* by the name of the species
createParticle(type, id, pos) ==
    CASE type = "proton" -> createProton(id, pos)
      [] type = "neutron" -> createNeutron(id, pos)
      [] type = "alpha" -> createAlpha(id, pos)
      [] OTHER -> createDeuteron(id, pos)

\* trail of the fragment at index particle: trailLength copies of its position
createTrail(id, particle, pos) ==
    [id |-> id, particle |-> particle, points |-> [i \in 1 .. TrailLen |-> pos]]

\* an updateTrail that does not look at trailsEnabled
updateTrailAlways(trail, pos, enabled) ==
    [trail EXCEPT !.points =
        <<pos>> \o SubSeq(trail.points, 1, Len(trail.points) - 1)]

\* points.pop(); points.unshift(particle.position.clone())
updateTrail(trail, pos, enabled) ==
    IF ~enabled THEN trail
    ELSE [trail EXCEPT !.points =
              <<pos>> \o SubSeq(trail.points, 1, Len(trail.points) - 1)]

\* an effect of animation.effects: an explosion particle (velocity, life,
\* decay) or an absorption flash (ring, flash, life); pos and vel are the
\* distance travelled and the speed along the particle's random direction
Effect(id, kind, decay, vel) ==
    [id |-> id, kind |-> kind, life |-> FullLife, decay |-> decay,
     pos |-> 0, vel |-> vel]

\* null in the place of an effect
NullEffect ==
    [id |-> <<0, 0>>, kind |-> "null", life |-> 0, decay |-> 0, pos |-> 0,
     vel |-> 0]

\* !effect || !effect.userData: null, or an object without its userData
LacksData(e) == e.kind \in {"null", "bare"}

\* decays[i] is the random decay of particle i
createExplosion(gen, first, decays) ==
    [i \in 1 .. ParticleCount |->
        Effect(<<gen, first + i - 1>>, "explosion", decays[i], ExplosionSpeed)]

createAbsorptionFlash(id) == Effect(id, "flash", 0, 0)

createGammaRay(id) ==
    [id |-> id, life |-> FullLife, decay |-> GammaDecay, pos |-> 0]

createGammaRays(gen, first, count) ==
    [i \in 1 .. count |-> createGammaRay(<<gen, first + i - 1>>)]

createEnergyWave(id, maxRadius) ==
    [id |-> id, life |-> FullLife, decay |-> WaveDecay,
     maxRadius |-> maxRadius, currentRadius |-> WaveStartRadius]

createCompoundNucleus(id) ==
    [id |-> id, life |-> FullLife, decay |-> CompoundDecay]

createExcitedTarget(id) ==
    [id |-> id, life |-> FullLife, decay |-> ExcitedDecay]

----------------------------------------------------------------------------
(* ParticleSystem: one update of an effect. alive is the returned value    *)

updateGammaRay(g) ==
    LET g1 == [g EXCEPT !.pos = @ + GammaSpeed, !.life = @ - g.decay]
    IN  [e |-> g1, alive |-> g1.life > 0]

\* a wave that lives as long as its life lasts, however large it is
updateEnergyWaveByLife(wv) ==
    LET w1 == [wv EXCEPT !.life = @ - wv.decay,
                         !.currentRadius = @ + WaveGrowth]
    IN  [e |-> w1, alive |-> w1.life > 0]

updateEnergyWave(wv) ==
    LET w1 == [wv EXCEPT !.life = @ - wv.decay,
                         !.currentRadius = @ + WaveGrowth]
    IN  [e |-> w1, alive |-> w1.life > 0 /\ w1.currentRadius < w1.maxRadius]

updateCompoundNucleus(c) ==
    LET c1 == [c EXCEPT !.life = @ - c.decay]
    IN  [e |-> c1, alive |-> c1.life > 0]

updateExcitedTarget(x) ==
    LET x1 == [x EXCEPT !.life = @ - x.decay]
    IN  [e |-> x1, alive |-> x1.life > 0]

updateAbsorptionFlash(f) ==
    LET f1 == [f EXCEPT !.life = @ - FlashDecay]
    IN  [e |-> f1, alive |-> f1.life > 0]

\* one particle of updateExplosion: move, drag, decay (the life of a dead
\* particle stops at -DeadLifeCap)
updateExplosionParticle(p) ==
    [p EXCEPT !.pos = @ + p.vel, !.vel = (@ * 95) \div 100,
              !.life = Max(-DeadLifeCap, @ - p.decay)]

----------------------------------------------------------------------------
(* Helpers on sequences and on the scene                                   *)

Ids(seq) == {seq[i].id : i \in 1 .. Len(seq)}

RECURSIVE SelectAlive(_, _)
\* the elements of seq, in order, for which keep[i] holds
SelectAlive(seq, keep) ==
    IF seq = <<>> THEN <<>>
    ELSE LET n == Len(seq)
             front == SelectAlive(SubSeq(seq, 1, n - 1), keep)
         IN  IF keep[n] THEN Append(front, seq[n]) ELSE front

----------------------------------------------------------------------------
(* BreakupAnimator: the animation record and its three constructors        *)

\* the value of currentAnimation and pending that stands for null
NoAnimation ==
    [gen |-> 0, type |-> "none", phase |-> "none", time |-> 0,
     impactParam |-> 0,
     projectile |-> [id |-> <<0, 0>>, type |-> "none", pos |-> Zero3,
                     vel |-> Zero3],
     fragments |-> <<>>, trails |-> <<>>, effects |-> <<>>,
     absorbedFragment |-> 0, escapingFragment |-> 0,
     compoundNucleus |-> <<>>, excitedTarget |-> <<>>,
     gammaRays |-> <<>>, energyWaves |-> <<>>,
     resonanceTime |-> 0, maxResonanceTime |-> 0,
     made |-> 1, cascades |-> 0]

\* an animation whose projectile is put on the axis of the target
NewAnimationOnAxis(kind, gen, projType, impactParam) ==
    [NoAnimation EXCEPT
        !.gen = gen, !.type = kind, !.phase = "approach",
        !.impactParam = impactParam,
        !.projectile = [id |-> <<gen, 0>>, type |-> projType,
                        pos |-> <<TargetX - StartOffset, 0, 0>>,
                        vel |-> <<InitialVx, 0, 0>>]]

\* the part common to createElasticBreakup, createNonelasticBreakup and
\* createInelasticBreakup; fragments and optional objects are named by
\* their index in fragments (0: null) or held in a sequence of length <= 1
NewAnimation(kind, gen, projType, impactParam) ==
    [NoAnimation EXCEPT
        !.gen = gen, !.type = kind, !.phase = "approach",
        !.impactParam = impactParam,
        !.projectile = [id |-> <<gen, 0>>, type |-> projType,
                        pos |-> <<TargetX - StartOffset, impactParam, 0>>,
                        vel |-> <<InitialVx, 0, 0>>]]

createElasticBreakup(gen, projType, impactParam) ==
    NewAnimation("elastic", gen, projType, impactParam)

createNonelasticBreakup(gen, projType, impactParam) ==
    [NewAnimation("nonelastic", gen, projType, impactParam)
        EXCEPT !.maxResonanceTime = MaxResonanceTime]

createInelasticBreakup(gen, projType, impactParam) ==
    NewAnimation("inelastic", gen, projType, impactParam)

\* animation.time += delta * this.speed (the counter stops at TimeCap)
AdvanceTime(a, sp) ==
    [a EXCEPT !.time = Min(TimeCap, @ + (Delta * sp) \div 10)]

\* the result of one update*Breakup call on the world w
Outcome(w, done) ==
    [a |-> w.a, scene |-> w.scene, vis |-> w.vis, done |-> done]

----------------------------------------------------------------------------
(* Elastic breakup                                                         *)

\* a table without the entry for lithium-7
ElasticFragmentsNoLi7(projType) ==
    CASE projType = "deuteron" ->
            <<[type |-> "proton", vel |-> <<80000, 60000, 20000>>],
              [type |-> "neutron", vel |-> <<80000, -40000, -20000>>]>>
      [] projType = "li6" ->
            <<[type |-> "alpha", vel |-> <<60000, 50000, 10000>>],
              [type |-> "deuteron", vel |-> <<100000, -30000, -10000>>]>>
      [] OTHER ->
            <<[type |-> "proton", vel |-> <<80000, 50000, 0>>],
              [type |-> "neutron", vel |-> <<80000, -50000, 0>>]>>

\* species and initial velocities of the two fragments
ElasticFragments(projType) ==
    CASE projType = "deuteron" ->
            <<[type |-> "proton", vel |-> <<80000, 60000, 20000>>],
              [type |-> "neutron", vel |-> <<80000, -40000, -20000>>]>>
      [] projType = "li6" ->
            <<[type |-> "alpha", vel |-> <<60000, 50000, 10000>>],
              [type |-> "deuteron", vel |-> <<100000, -30000, -10000>>]>>
      [] projType = "li7" ->
            <<[type |-> "alpha", vel |-> <<60000, 40000, 0>>],
              [type |-> "proton", vel |-> <<100000, -50000, 0>>]>>
      [] OTHER ->
            <<[type |-> "proton", vel |-> <<80000, 50000, 0>>],
              [type |-> "neutron", vel |-> <<80000, -50000, 0>>]>>

\* a breakup that leaves the projectile in the scene
initiateElasticBreakupKeeping(w, decays) ==
    LET a == w.a
        n == a.made
        spec == ElasticFragments(a.projectile.type)
        fragment1 == [createParticle(spec[1].type, <<a.gen, n>>,
                          VAdd(a.projectile.pos, <<0, 300, 0>>))
                        EXCEPT !.vel = spec[1].vel]
        fragment2 == [createParticle(spec[2].type, <<a.gen, n + 1>>,
                          VAdd(a.projectile.pos, <<0, -300, 0>>))
                        EXCEPT !.vel = spec[2].vel]
        trail1 == createTrail(<<a.gen, n + 2>>, 1, fragment1.pos)
        trail2 == createTrail(<<a.gen, n + 3>>, 2, fragment2.pos)
        flash == createExplosion(a.gen, n + 4, decays)
    IN  [w EXCEPT
            !.scene = (@ \cup {fragment1.id, fragment2.id, trail1.id,
                               trail2.id})
                        \cup Ids(flash),
            !.a = [a EXCEPT
                     !.fragments = @ \o <<fragment1, fragment2>>,
                     !.trails = @ \o <<trail1, trail2>>,
                     !.effects = @ \o flash,
                     !.made = n + 4 + ParticleCount]]

initiateElasticBreakup(w, decays) ==
    LET a == w.a
        n == a.made
        spec == ElasticFragments(a.projectile.type)
        fragment1 == [createParticle(spec[1].type, <<a.gen, n>>,
                          VAdd(a.projectile.pos, <<0, 300, 0>>))
                        EXCEPT !.vel = spec[1].vel]
        fragment2 == [createParticle(spec[2].type, <<a.gen, n + 1>>,
                          VAdd(a.projectile.pos, <<0, -300, 0>>))
                        EXCEPT !.vel = spec[2].vel]
        trail1 == createTrail(<<a.gen, n + 2>>, 1, fragment1.pos)
        trail2 == createTrail(<<a.gen, n + 3>>, 2, fragment2.pos)
        flash == createExplosion(a.gen, n + 4, decays)
    IN  [w EXCEPT
            !.scene = ((@ \ {a.projectile.id})
                        \cup {fragment1.id, fragment2.id, trail1.id, trail2.id})
                        \cup Ids(flash),
            !.a = [a EXCEPT
                     !.fragments = @ \o <<fragment1, fragment2>>,
                     !.trails = @ \o <<trail1, trail2>>,
                     !.effects = @ \o flash,
                     !.made = n + 4 + ParticleCount]]

\* a fragment that is never moved
ElasticFragmentStepFrozen(f, sp) == f

\* the body of animation.fragments.forEach in phase 'breakup', for one
\* fragment: Coulomb force from the target, then the move
ElasticFragmentStep(f, sp) ==
    LET dist == Dist(f.pos, TargetPos)
        vel1 == IF dist > MinForceDist
                THEN VAdd(f.vel, CoulombForce(f.pos, FragmentK * f.charge,
                                              dist, sp))
                ELSE f.vel
    IN  [f EXCEPT !.vel = vel1, !.pos = MoveAs(f.pos, vel1, sp)]

\* the trails of animation.trails updated from the fragment of the same
\* index, where there is one
TrailsByIndex(trails, fragments, enabled) ==
    [i \in 1 .. Len(trails) |->
        IF i <= Len(fragments)
        THEN updateTrail(trails[i], fragments[i].pos, enabled)
        ELSE trails[i]]

\* some fragment, not every one, is farther than far from the target
AllBeyondSome(fragments, far) ==
    \E i \in 1 .. Len(fragments) : Dist(fragments[i].pos, TargetPos) > far

\* fragments.every(f => f.position.distanceTo(target.position) > far)
AllBeyond(fragments, far) ==
    \A i \in 1 .. Len(fragments) : Dist(fragments[i].pos, TargetPos) > far

\* an update that reports completion on the tick that reaches it
updateElasticBreakupPrompt(w, sp, enabled, decays) ==
    LET a == AdvanceTime(w.a, sp)
        w0 == [w EXCEPT !.a = a]
    IN  CASE a.phase = "approach" ->
               LET pos1 == MoveAs(a.projectile.pos, a.projectile.vel, sp)
                   distToTarget == Dist(pos1, TargetPos)
                   vel1 == IF distToTarget < InteractionRadius
                           THEN VAdd(a.projectile.vel,
                                     CoulombForce(pos1, ElasticK,
                                                  distToTarget, sp))
                           ELSE a.projectile.vel
                   a1 == [a EXCEPT !.projectile.pos = pos1,
                                   !.projectile.vel = vel1]
               IN  IF distToTarget < ElasticBreakupDist
                   THEN Outcome(initiateElasticBreakup(
                            [w EXCEPT !.a = [a1 EXCEPT !.phase = "breakup"]],
                            decays), FALSE)
                   ELSE Outcome([w EXCEPT !.a = a1], FALSE)
          [] a.phase = "breakup" ->
               LET frags == [i \in 1 .. Len(a.fragments) |->
                                ElasticFragmentStep(a.fragments[i], sp)]
                   trails == TrailsByIndex(a.trails, frags, enabled)
                   allEscaped == AllBeyond(frags, EscapeDist)
               IN  Outcome([w EXCEPT !.a = [a EXCEPT
                                !.fragments = frags, !.trails = trails,
                                !.phase = IF allEscaped THEN "complete"
                                          ELSE @]], allEscaped)
          [] a.phase = "complete" -> Outcome(w0, TRUE)
          [] OTHER -> Outcome(w0, FALSE)

updateElasticBreakup(w, sp, enabled, decays) ==
    LET a == AdvanceTime(w.a, sp)
        w0 == [w EXCEPT !.a = a]
    IN  CASE a.phase = "approach" ->
               LET pos1 == MoveAs(a.projectile.pos, a.projectile.vel, sp)
                   distToTarget == Dist(pos1, TargetPos)
                   vel1 == IF distToTarget < InteractionRadius
                           THEN VAdd(a.projectile.vel,
                                     CoulombForce(pos1, ElasticK,
                                                  distToTarget, sp))
                           ELSE a.projectile.vel
                   a1 == [a EXCEPT !.projectile.pos = pos1,
                                   !.projectile.vel = vel1]
               IN  IF distToTarget < ElasticBreakupDist
                   THEN Outcome(initiateElasticBreakup(
                            [w EXCEPT !.a = [a1 EXCEPT !.phase = "breakup"]],
                            decays), FALSE)
                   ELSE Outcome([w EXCEPT !.a = a1], FALSE)
          [] a.phase = "breakup" ->
               LET frags == [i \in 1 .. Len(a.fragments) |->
                                ElasticFragmentStep(a.fragments[i], sp)]
                   trails == TrailsByIndex(a.trails, frags, enabled)
                   allEscaped == AllBeyond(frags, EscapeDist)
               IN  Outcome([w EXCEPT !.a = [a EXCEPT
                                !.fragments = frags, !.trails = trails,
                                !.phase = IF allEscaped THEN "complete"
                                          ELSE @]], FALSE)
          [] a.phase = "complete" -> Outcome(w0, TRUE)
          [] OTHER -> Outcome(w0, FALSE)

----------------------------------------------------------------------------
(* Nonelastic breakup                                                      *)

\* species of the escaping and of the absorbed fragment, and the initial
\* velocity of the escaping one
NonelasticFragments(projType) ==
    CASE projType = "deuteron" ->
            [escaping |-> "neutron", absorbed |-> "proton",
             vel |-> <<100000, 80000, 20000>>]
      [] projType = "li6" ->
            [escaping |-> "alpha", absorbed |-> "deuteron",
             vel |-> <<80000, 60000, 0>>]
      [] projType = "li7" ->
            [escaping |-> "alpha", absorbed |-> "proton",
             vel |-> <<80000, 50000, 0>>]
      [] OTHER ->
            [escaping |-> "neutron", absorbed |-> "proton",
             vel |-> <<100000, 60000, 0>>]

\* a breakup that already hides the target
initiateNonelasticBreakupHiding(w, decays) ==
    LET a == w.a
        n == a.made
        spec == NonelasticFragments(a.projectile.type)
        escapingFrag == [createParticle(spec.escaping, <<a.gen, n>>,
                             VAdd(a.projectile.pos, <<0, 500, 0>>))
                           EXCEPT !.vel = spec.vel]
        absorbedFrag == createParticle(spec.absorbed, <<a.gen, n + 1>>,
                             VAdd(a.projectile.pos, <<0, -300, 0>>))
        trail == createTrail(<<a.gen, n + 2>>, 1, escapingFrag.pos)
        breakupFlash == createExplosion(a.gen, n + 3, decays)
    IN  [w EXCEPT
            !.vis = FALSE,
            !.scene = ((@ \ {a.projectile.id})
                        \cup {escapingFrag.id, absorbedFrag.id, trail.id})
                        \cup Ids(breakupFlash),
            !.a = [a EXCEPT
                     !.escapingFragment = Len(a.fragments) + 1,
                     !.absorbedFragment = Len(a.fragments) + 2,
                     !.fragments = @ \o <<escapingFrag, absorbedFrag>>,
                     !.trails = @ \o <<trail>>,
                     !.effects = @ \o breakupFlash,
                     !.made = n + 3 + ParticleCount]]

initiateNonelasticBreakup(w, decays) ==
    LET a == w.a
        n == a.made
        spec == NonelasticFragments(a.projectile.type)
        escapingFrag == [createParticle(spec.escaping, <<a.gen, n>>,
                             VAdd(a.projectile.pos, <<0, 500, 0>>))
                           EXCEPT !.vel = spec.vel]
        absorbedFrag == createParticle(spec.absorbed, <<a.gen, n + 1>>,
                             VAdd(a.projectile.pos, <<0, -300, 0>>))
        trail == createTrail(<<a.gen, n + 2>>, 1, escapingFrag.pos)
        breakupFlash == createExplosion(a.gen, n + 3, decays)
    IN  [w EXCEPT
            !.scene = ((@ \ {a.projectile.id})
                        \cup {escapingFrag.id, absorbedFrag.id, trail.id})
                        \cup Ids(breakupFlash),
            !.a = [a EXCEPT
                     !.escapingFragment = Len(a.fragments) + 1,
                     !.absorbedFragment = Len(a.fragments) + 2,
                     !.fragments = @ \o <<escapingFrag, absorbedFrag>>,
                     !.trails = @ \o <<trail>>,
                     !.effects = @ \o breakupFlash,
                     !.made = n + 3 + ParticleCount]]

\* a compound nucleus formed with the target left visible
createCompoundNucleusEffectVisible(w) ==
    LET a == w.a
        n == a.made
        compound == createCompoundNucleus(<<a.gen, n>>)
        energyWave == createEnergyWave(<<a.gen, n + 1>>, 6000)
        flash == createAbsorptionFlash(<<a.gen, n + 2>>)
    IN  [w EXCEPT
            !.scene = (@ \ {a.fragments[a.absorbedFragment].id})
                        \cup {compound.id, energyWave.id, flash.id},
            !.a = [a EXCEPT
                     !.compoundNucleus = <<compound>>,
                     !.energyWaves = Append(@, energyWave),
                     !.effects = Append(@, flash),
                     !.made = n + 3]]

createCompoundNucleusEffect(w) ==
    LET a == w.a
        n == a.made
        compound == createCompoundNucleus(<<a.gen, n>>)
        energyWave == createEnergyWave(<<a.gen, n + 1>>, 6000)
        flash == createAbsorptionFlash(<<a.gen, n + 2>>)
    IN  [w EXCEPT
            !.scene = (@ \ {a.fragments[a.absorbedFragment].id})
                        \cup {compound.id, energyWave.id, flash.id},
            !.vis = FALSE,
            !.a = [a EXCEPT
                     !.compoundNucleus = <<compound>>,
                     !.energyWaves = Append(@, energyWave),
                     !.effects = Append(@, flash),
                     !.made = n + 3]]

\* gammaCount is 3 + Math.floor(Math.random() * 3); cascades counts the
\* calls of emitGammaRays on this animation
emitGammaRays(w, gammaCount) ==
    LET a == w.a
        gammas == createGammaRays(a.gen, a.made, gammaCount)
    IN  [w EXCEPT
            !.scene = @ \cup Ids(gammas),
            !.a = [a EXCEPT !.gammaRays = @ \o gammas,
                            !.made = @ + gammaCount,
                            !.cascades = @ + 1]]

\* a decay phase that forgets the compound nucleus without removing it
initiateDecayPhaseLeaving(w) ==
    LET a == w.a
        n == a.made
        finalWave == createEnergyWave(<<a.gen, n>>, 8000)
        additionalGammas == createGammaRays(a.gen, n + 1, 2)
    IN  [w EXCEPT
            !.scene = (@ \cup {finalWave.id}) \cup Ids(additionalGammas),
            !.vis = TRUE,
            !.a = [a EXCEPT
                     !.compoundNucleus = <<>>,
                     !.energyWaves = Append(@, finalWave),
                     !.gammaRays = @ \o additionalGammas,
                     !.made = n + 3]]

initiateDecayPhase(w) ==
    LET a == w.a
        n == a.made
        finalWave == createEnergyWave(<<a.gen, n>>, 8000)
        additionalGammas == createGammaRays(a.gen, n + 1, 2)
    IN  [w EXCEPT
            !.scene = ((@ \ Ids(a.compoundNucleus)) \cup {finalWave.id})
                        \cup Ids(additionalGammas),
            !.vis = TRUE,
            !.a = [a EXCEPT
                     !.compoundNucleus = <<>>,
                     !.energyWaves = Append(@, finalWave),
                     !.gammaRays = @ \o additionalGammas,
                     !.made = n + 3]]

\* animation.gammaRays = animation.gammaRays.filter(...): every gamma ray is
\* updated, the dead ones leave the collection and the scene
FilterGammaRays(w) ==
    LET g == w.a.gammaRays
        upd == [i \in 1 .. Len(g) |-> updateGammaRay(g[i])]
        dead == {g[i].id : i \in {j \in 1 .. Len(g) : ~upd[j].alive}}
    IN  [w EXCEPT
            !.scene = @ \ dead,
            !.a.gammaRays = SelectAlive([i \in 1 .. Len(g) |-> upd[i].e],
                                        [i \in 1 .. Len(g) |-> upd[i].alive])]

\* animation.energyWaves = animation.energyWaves.filter(...)
FilterEnergyWaves(w) ==
    LET g == w.a.energyWaves
        upd == [i \in 1 .. Len(g) |-> updateEnergyWave(g[i])]
        dead == {g[i].id : i \in {j \in 1 .. Len(g) : ~upd[j].alive}}
    IN  [w EXCEPT
            !.scene = @ \ dead,
            !.a.energyWaves = SelectAlive([i \in 1 .. Len(g) |-> upd[i].e],
                                          [i \in 1 .. Len(g) |-> upd[i].alive])]

\* one effect of updateEffects: the updated effect and whether it is kept
EffectStep(e) ==
    IF LacksData(e) THEN [e |-> e, alive |-> FALSE]
    ELSE IF e.kind = "flash" THEN updateAbsorptionFlash(e)
    ELSE LET e1 == updateExplosionParticle(e)
         IN  [e |-> e1, alive |-> ~(e1.life <= 0)]

updateEffects(w) ==
    LET g == w.a.effects
        upd == [i \in 1 .. Len(g) |-> EffectStep(g[i])]
        dead == {g[i].id : i \in {j \in 1 .. Len(g) :
                                      ~upd[j].alive /\ ~LacksData(g[j])}}
    IN  [w EXCEPT
            !.scene = @ \ dead,
            !.a.effects = SelectAlive([i \in 1 .. Len(g) |-> upd[i].e],
                                      [i \in 1 .. Len(g) |-> upd[i].alive])]

\* e.userData read on null by the filter in front of updateExplosion
ExplosionFilterThrows(effects) ==
    \E i \in 1 .. Len(effects) : effects[i].kind = "null"

\* this.particleSystem.updateExplosion(animation.effects.filter(e =>
\* e.userData && e.userData.velocity)): the particles are advanced in
\* place; the dead ones are spliced out of the filtered copy only.  When
\* the filter throws, no particle has been advanced
UpdateExplosionOnCopy(w) ==
    [w EXCEPT !.a.effects =
        IF ExplosionFilterThrows(@) THEN @
        ELSE [i \in 1 .. Len(@) |->
                IF @[i].kind = "explosion" THEN updateExplosionParticle(@[i])
                ELSE @[i]]]

\* the escaping fragment moved by its velocity whatever the speed is
MoveEscapingUnscaled(w, sp, enabled) ==
    LET a == w.a
        k == a.escapingFragment
        pos1 == MoveAs(a.fragments[k].pos, a.fragments[k].vel, 10)
    IN  [w EXCEPT
            !.a.fragments[k].pos = pos1,
            !.a.trails = IF Len(a.trails) >= 1
                         THEN [@ EXCEPT ![1] = updateTrail(@, pos1, enabled)]
                         ELSE @]

\* the escaping fragment moved by its velocity, and its trail
MoveEscaping(w, sp, enabled) ==
    LET a == w.a
        k == a.escapingFragment
        pos1 == MoveAs(a.fragments[k].pos, a.fragments[k].vel, sp)
    IN  [w EXCEPT
            !.a.fragments[k].pos = pos1,
            !.a.trails = IF Len(a.trails) >= 1
                         THEN [@ EXCEPT ![1] = updateTrail(@, pos1, enabled)]
                         ELSE @]

\* an end of 'decay' that does not wait for the fragment to escape
EscapeOrCompleteAtOnce(w, sp, enabled) ==
    IF w.a.escapingFragment = 0 THEN w
    ELSE [MoveEscaping(w, sp, enabled) EXCEPT !.a.phase = "complete"]

\* the end of cases 'decay' and 'absorption': move the escaping fragment
\* and complete once it is farther than the escape distance
EscapeOrComplete(w, sp, enabled) ==
    IF w.a.escapingFragment = 0 THEN w
    ELSE LET w1 == MoveEscaping(w, sp, enabled)
             frag == w1.a.fragments[w1.a.escapingFragment]
         IN  IF Dist(frag.pos, TargetPos) > EscapeDist
             THEN [w1 EXCEPT !.a.phase = "complete"]
             ELSE w1

\* an approach that measures the distance to the target one unit short
ApproachStepNear(a, k, sp) ==
    LET pos1 == MoveAs(a.projectile.pos, a.projectile.vel, sp)
        dist == Dist(pos1, TargetPos)
        vel1 == IF dist < InteractionRadius
                THEN VAdd(a.projectile.vel, CoulombForce(pos1, k, dist, sp))
                ELSE a.projectile.vel
    IN  [a |-> [a EXCEPT !.projectile.pos = pos1, !.projectile.vel = vel1],
         dist |-> dist - 1000]

\* the approach of the projectile, common to the three kinds: the move, the
\* distance to the target after it and the Coulomb deflection with factor k
ApproachStep(a, k, sp) ==
    LET pos1 == MoveAs(a.projectile.pos, a.projectile.vel, sp)
        dist == Dist(pos1, TargetPos)
        vel1 == IF dist < InteractionRadius
                THEN VAdd(a.projectile.vel, CoulombForce(pos1, k, dist, sp))
                ELSE a.projectile.vel
    IN  [a |-> [a EXCEPT !.projectile.pos = pos1, !.projectile.vel = vel1],
         dist |-> dist]

\* case 'breakup' as the older animator has it: capture leads to the
\* 'absorption' phase, which is not a phase of the nonelastic order
NonelasticBreakupStepLegacy(w, sp, enabled) ==
    LET a == w.a
        k == a.escapingFragment
        esc == ElasticFragmentStep(a.fragments[k], sp)
        w1 == IF k = 0 THEN w
              ELSE [w EXCEPT
                      !.a.fragments[k] = esc,
                      !.a.trails = IF Len(a.trails) >= 1
                                   THEN [@ EXCEPT ![1] =
                                           updateTrail(@, esc.pos, enabled)]
                                   ELSE @]
        j == a.absorbedFragment
        absorbed == w1.a.fragments[j]
        distToCore == Dist(absorbed.pos, TargetPos)
    IN  IF j = 0 THEN w1
        ELSE IF distToCore > CaptureDist
        THEN [w1 EXCEPT !.a.fragments[j].pos =
                 VClamp(VAdd(@, TowardTarget(absorbed.pos, distToCore, sp)))]
        ELSE [w1 EXCEPT !.a.phase = "absorption"]

\* case 'breakup' of updateNonelasticBreakup
NonelasticBreakupStep(w, sp, enabled) ==
    LET a == w.a
        k == a.escapingFragment
        esc == ElasticFragmentStep(a.fragments[k], sp)
        w1 == IF k = 0 THEN w
              ELSE [w EXCEPT
                      !.a.fragments[k] = esc,
                      !.a.trails = IF Len(a.trails) >= 1
                                   THEN [@ EXCEPT ![1] =
                                           updateTrail(@, esc.pos, enabled)]
                                   ELSE @]
        j == a.absorbedFragment
        absorbed == w1.a.fragments[j]
        distToCore == Dist(absorbed.pos, TargetPos)
    IN  IF j = 0 THEN w1
        ELSE IF distToCore > CaptureDist
        THEN [w1 EXCEPT !.a.fragments[j].pos =
                 VClamp(VAdd(@, TowardTarget(absorbed.pos, distToCore, sp)))]
        ELSE createCompoundNucleusEffect([w1 EXCEPT !.a.phase = "compound"])

\* the compound nucleus pulsation: updated, and removed once dead
CompoundPulse(w) ==
    IF w.a.compoundNucleus = <<>> THEN w
    ELSE LET u == updateCompoundNucleus(w.a.compoundNucleus[1])
         IN  IF u.alive THEN [w EXCEPT !.a.compoundNucleus = <<u.e>>]
             ELSE [w EXCEPT !.scene = @ \ {u.e.id},
                            !.a.compoundNucleus = <<>>]

\* a guard that does not look at the gamma rays in flight
CascadeDueWhileInFlight(a) ==
    a.resonanceTime * 10 > a.maxResonanceTime * 6

\* the guard of the de-excitation cascade
CascadeDue(a) ==
    /\ a.resonanceTime * 10 > a.maxResonanceTime * 6
    /\ Len(a.gammaRays) = 0

\* case 'compound' of updateNonelasticBreakup
CompoundStep(w, sp, enabled, gammaCount) ==
    LET w1 == CompoundPulse([w EXCEPT !.a.resonanceTime = @ + sp])
        w2 == IF w1.a.escapingFragment = 0 THEN w1
              ELSE MoveEscaping(w1, sp, enabled)
        w3 == IF CascadeDue(w2.a) THEN emitGammaRays(w2, gammaCount) ELSE w2
        w4 == FilterGammaRays(w3)
    IN  IF w4.a.resonanceTime > w4.a.maxResonanceTime
        THEN initiateDecayPhase([w4 EXCEPT !.a.phase = "decay"])
        ELSE w4

\* case 'decay' of updateNonelasticBreakup
DecayStep(w, sp, enabled) ==
    EscapeOrComplete(updateEffects(FilterGammaRays(FilterEnergyWaves(w))),
                     sp, enabled)

\* a legacy phase that leaves the effects alone
AbsorptionStepIdle(w, sp, enabled) ==
    EscapeOrComplete(w, sp, enabled)

\* case 'absorption' of updateNonelasticBreakup
AbsorptionStep(w, sp, enabled) ==
    EscapeOrComplete(updateEffects(w), sp, enabled)

\* an update whose 'breakup' case is the one of the older animator
updateNonelasticBreakupOlder(w, sp, enabled, decays, gammaCount) ==
    LET a == AdvanceTime(w.a, sp)
        w0 == [w EXCEPT !.a = a]
    IN  IF a.phase = "complete" THEN Outcome(w0, TRUE)
        ELSE LET w1 ==
                   CASE a.phase = "approach" ->
                          LET s == ApproachStep(a, NonelasticK, sp)
                          IN  IF s.dist < NonelasticBreakupDist
                              THEN initiateNonelasticBreakup(
                                     [w EXCEPT !.a = [s.a EXCEPT
                                                 !.phase = "breakup"]], decays)
                              ELSE [w EXCEPT !.a = s.a]
                     [] a.phase = "breakup" ->
                          NonelasticBreakupStepLegacy(w0, sp, enabled)
                     [] a.phase = "compound" ->
                          CompoundStep(w0, sp, enabled, gammaCount)
                     [] a.phase = "decay" -> DecayStep(w0, sp, enabled)
                     [] a.phase = "absorption" ->
                          AbsorptionStep(w0, sp, enabled)
                     [] OTHER -> w0
             IN  Outcome(UpdateExplosionOnCopy(w1), FALSE)

updateNonelasticBreakup(w, sp, enabled, decays, gammaCount) ==
    LET a == AdvanceTime(w.a, sp)
        w0 == [w EXCEPT !.a = a]
    IN  IF a.phase = "complete" THEN Outcome(w0, TRUE)
        ELSE LET w1 ==
                   CASE a.phase = "approach" ->
                          LET s == ApproachStep(a, NonelasticK, sp)
                          IN  IF s.dist < NonelasticBreakupDist
                              THEN initiateNonelasticBreakup(
                                     [w EXCEPT !.a = [s.a EXCEPT
                                                 !.phase = "breakup"]], decays)
                              ELSE [w EXCEPT !.a = s.a]
                     [] a.phase = "breakup" ->
                          NonelasticBreakupStep(w0, sp, enabled)
                     [] a.phase = "compound" ->
                          CompoundStep(w0, sp, enabled, gammaCount)
                     [] a.phase = "decay" -> DecayStep(w0, sp, enabled)
                     [] a.phase = "absorption" ->
                          AbsorptionStep(w0, sp, enabled)
                     [] OTHER -> w0
             IN  Outcome(UpdateExplosionOnCopy(w1), FALSE)

----------------------------------------------------------------------------
(* Inelastic breakup                                                       *)

InelasticFragments(projType) ==
    CASE projType = "deuteron" ->
            <<[type |-> "proton", vel |-> <<100000, 40000, 10000>>],
              [type |-> "neutron", vel |-> <<80000, -30000, -10000>>]>>
      [] OTHER ->
            <<[type |-> "proton", vel |-> <<100000, 40000, 0>>],
              [type |-> "neutron", vel |-> <<80000, -40000, 0>>]>>

\* an excitation that leaves the target on display
initiateInelasticBreakupShown(w, decays) ==
    LET a == w.a
        n == a.made
        spec == InelasticFragments(a.projectile.type)
        fragment1 == [createParticle(spec[1].type, <<a.gen, n>>,
                          VAdd(a.projectile.pos, <<0, 200, 0>>))
                        EXCEPT !.vel = spec[1].vel]
        fragment2 == [createParticle(spec[2].type, <<a.gen, n + 1>>,
                          VAdd(a.projectile.pos, <<0, -200, 0>>))
                        EXCEPT !.vel = spec[2].vel]
        trail1 == createTrail(<<a.gen, n + 2>>, 1, fragment1.pos)
        trail2 == createTrail(<<a.gen, n + 3>>, 2, fragment2.pos)
        excited == createExcitedTarget(<<a.gen, n + 4>>)
        wave == createEnergyWave(<<a.gen, n + 5>>, 5000)
        flash == createExplosion(a.gen, n + 6, decays)
    IN  [w EXCEPT
            !.scene = ((@ \ {a.projectile.id})
                        \cup {fragment1.id, fragment2.id, trail1.id, trail2.id,
                              excited.id, wave.id})
                        \cup Ids(flash),
            !.a = [a EXCEPT
                     !.fragments = @ \o <<fragment1, fragment2>>,
                     !.trails = @ \o <<trail1, trail2>>,
                     !.excitedTarget = <<excited>>,
                     !.energyWaves = Append(@, wave),
                     !.effects = @ \o flash,
                     !.made = n + 6 + ParticleCount]]

initiateInelasticBreakup(w, decays) ==
    LET a == w.a
        n == a.made
        spec == InelasticFragments(a.projectile.type)
        fragment1 == [createParticle(spec[1].type, <<a.gen, n>>,
                          VAdd(a.projectile.pos, <<0, 200, 0>>))
                        EXCEPT !.vel = spec[1].vel]
        fragment2 == [createParticle(spec[2].type, <<a.gen, n + 1>>,
                          VAdd(a.projectile.pos, <<0, -200, 0>>))
                        EXCEPT !.vel = spec[2].vel]
        trail1 == createTrail(<<a.gen, n + 2>>, 1, fragment1.pos)
        trail2 == createTrail(<<a.gen, n + 3>>, 2, fragment2.pos)
        excited == createExcitedTarget(<<a.gen, n + 4>>)
        wave == createEnergyWave(<<a.gen, n + 5>>, 5000)
        flash == createExplosion(a.gen, n + 6, decays)
    IN  [w EXCEPT
            !.scene = ((@ \ {a.projectile.id})
                        \cup {fragment1.id, fragment2.id, trail1.id, trail2.id,
                              excited.id, wave.id})
                        \cup Ids(flash),
            !.vis = FALSE,
            !.a = [a EXCEPT
                     !.fragments = @ \o <<fragment1, fragment2>>,
                     !.trails = @ \o <<trail1, trail2>>,
                     !.excitedTarget = <<excited>>,
                     !.energyWaves = Append(@, wave),
                     !.effects = @ \o flash,
                     !.made = n + 6 + ParticleCount]]

\* a de-excitation that emits one gamma ray only
emitTargetGammasSingle(w) ==
    LET a == w.a
        n == a.made
        gammas == createGammaRays(a.gen, n, 1)
        wave == createEnergyWave(<<a.gen, n + 2>>, 6000)
    IN  [w EXCEPT
            !.scene = (@ \cup Ids(gammas)) \cup {wave.id},
            !.vis = TRUE,
            !.a = [a EXCEPT !.gammaRays = @ \o gammas,
                            !.energyWaves = Append(@, wave),
                            !.made = n + 3]]

emitTargetGammas(w) ==
    LET a == w.a
        n == a.made
        gammas == createGammaRays(a.gen, n, 2)
        wave == createEnergyWave(<<a.gen, n + 2>>, 6000)
    IN  [w EXCEPT
            !.scene = (@ \cup Ids(gammas)) \cup {wave.id},
            !.vis = TRUE,
            !.a = [a EXCEPT !.gammaRays = @ \o gammas,
                            !.energyWaves = Append(@, wave),
                            !.made = n + 3]]

\* the excited target: updated, and once dead removed and de-excited
ExcitedPulse(w) ==
    IF w.a.excitedTarget = <<>> THEN w
    ELSE LET u == updateExcitedTarget(w.a.excitedTarget[1])
         IN  IF u.alive THEN [w EXCEPT !.a.excitedTarget = <<u.e>>]
             ELSE emitTargetGammas([w EXCEPT !.scene = @ \ {u.e.id},
                                             !.a.excitedTarget = <<>>])

\* a case 'escape' that completes as soon as the fragments are far
EscapeStepFarOnly(w, sp, enabled) ==
    LET a == w.a
        frags == [i \in 1 .. Len(a.fragments) |->
                    [a.fragments[i] EXCEPT
                        !.pos = MoveAs(@, a.fragments[i].vel, sp)]]
        w1 == [w EXCEPT !.a.fragments = frags,
                        !.a.trails = TrailsByIndex(@, frags, enabled)]
        w2 == FilterEnergyWaves(FilterGammaRays(ExcitedPulse(w1)))
    IN  IF AllBeyond(w2.a.fragments, EscapeDist)
        THEN [w2 EXCEPT !.a.phase = "complete"]
        ELSE w2

\* case 'escape' of updateInelasticBreakup
EscapeStep(w, sp, enabled) ==
    LET a == w.a
        frags == [i \in 1 .. Len(a.fragments) |->
                    [a.fragments[i] EXCEPT
                        !.pos = MoveAs(@, a.fragments[i].vel, sp)]]
        w1 == [w EXCEPT !.a.fragments = frags,
                        !.a.trails = TrailsByIndex(@, frags, enabled)]
        w2 == FilterEnergyWaves(FilterGammaRays(ExcitedPulse(w1)))
        allFar == AllBeyond(w2.a.fragments, EscapeDist)
    IN  IF allFar /\ Len(w2.a.gammaRays) = 0 /\ w2.a.excitedTarget = <<>>
        THEN [w2 EXCEPT !.a.phase = "complete"]
        ELSE w2

\* an update that excites the target whenever the projectile is close,
\* excited already or not
updateInelasticBreakupAgain(w, sp, enabled, decays) ==
    LET a == AdvanceTime(w.a, sp)
        w0 == [w EXCEPT !.a = a]
    IN  CASE a.phase = "approach" ->
               LET s == ApproachStep(a, InelasticK, sp)
                   w1 == IF s.dist < ExcitationDist
                         THEN initiateInelasticBreakup([w EXCEPT !.a = s.a],
                                                       decays)
                         ELSE [w EXCEPT !.a = s.a]
               IN  Outcome(IF w1.a.projectile.pos[1] > TargetX + PassOffset
                           THEN [w1 EXCEPT !.a.phase = "escape"]
                           ELSE w1, FALSE)
          [] a.phase = "escape" -> Outcome(EscapeStep(w0, sp, enabled), FALSE)
          [] a.phase = "complete" -> Outcome(w0, TRUE)
          [] OTHER -> Outcome(w0, FALSE)

updateInelasticBreakup(w, sp, enabled, decays) ==
    LET a == AdvanceTime(w.a, sp)
        w0 == [w EXCEPT !.a = a]
    IN  CASE a.phase = "approach" ->
               LET s == ApproachStep(a, InelasticK, sp)
                   w1 == IF s.dist < ExcitationDist /\ s.a.excitedTarget = <<>>
                         THEN initiateInelasticBreakup([w EXCEPT !.a = s.a],
                                                       decays)
                         ELSE [w EXCEPT !.a = s.a]
               IN  Outcome(IF w1.a.projectile.pos[1] > TargetX + PassOffset
                           THEN [w1 EXCEPT !.a.phase = "escape"]
                           ELSE w1, FALSE)
          [] a.phase = "escape" -> Outcome(EscapeStep(w0, sp, enabled), FALSE)
          [] a.phase = "complete" -> Outcome(w0, TRUE)
          [] OTHER -> Outcome(w0, FALSE)

----------------------------------------------------------------------------
(* BreakupAnimator: update, play, stop, reset, setSpeed                    *)

\* a guard that forgets isPlaying
UpdateIgnoresPause(cur, playing) == cur.gen = 0

\* if (!this.currentAnimation || !this.isPlaying) return false
UpdateIsNoop(cur, playing) == cur.gen = 0 \/ ~playing

\* a switch after which the explosion particles of every type of animation
\* are advanced
AdvanceWithEffects(w, sp, enabled, decays, gammaCount) ==
    CASE w.a.type = "elastic" ->
             UpdateExplosionOnCopy(
                 updateElasticBreakup(w, sp, enabled, decays))
      [] w.a.type = "inelastic" ->
             UpdateExplosionOnCopy(
                 updateInelasticBreakup(w, sp, enabled, decays))
      [] OTHER -> updateNonelasticBreakup(w, sp, enabled, decays, gammaCount)

\* the switch on currentAnimation.type inside the try block
Advance(w, sp, enabled, decays, gammaCount) ==
    CASE w.a.type = "elastic" -> updateElasticBreakup(w, sp, enabled, decays)
      [] w.a.type = "inelastic" ->
             updateInelasticBreakup(w, sp, enabled, decays)
      [] OTHER -> updateNonelasticBreakup(w, sp, enabled, decays, gammaCount)

\* an exception raised inside the tick: "early", by the first statement of
\* the phase's case, after animation.time has advanced; "late", by the last
\* one, after everything else the tick does
AdvanceOrThrow(w, sp, enabled, decays, gammaCount, fault) ==
    LET o == Advance(w, sp, enabled, decays, gammaCount)
    IN  CASE fault = "early" ->
               [Outcome([w EXCEPT !.a = AdvanceTime(w.a, sp)], FALSE)
                   EXCEPT !.done = FALSE]
          [] OTHER -> o

\* an update without the catch block: the exception leaves update
CatchRethrow == [ret |-> "throws", isPlaying |-> TRUE]

\* the catch block: this.isPlaying = false; return true
CatchResult == [ret |-> "true", isPlaying |-> FALSE]

\* a completion that returns true and forgets to stop playback
UpdateResultKeepsPlaying(isComplete, threw, playing) ==
    IF threw THEN CatchResult
    ELSE IF isComplete THEN [ret |-> "true", isPlaying |-> playing]
    ELSE [ret |-> "false", isPlaying |-> playing]

\* what update returns ("true" or "false") and leaves in isPlaying, from
\* isComplete and from whether the catch block ran
UpdateResult(isComplete, threw, playing) ==
    IF threw THEN CatchResult
    ELSE IF isComplete THEN [ret |-> "true", isPlaying |-> FALSE]
    ELSE [ret |-> "false", isPlaying |-> playing]

\* the random draws a tick of animation a can consume
DecayDraws(a) ==
    IF a.phase = "approach" THEN [1 .. ParticleCount -> ExplosionDecays]
    ELSE {[i \in 1 .. ParticleCount |-> 20]}

CountDraws(a) == IF a.phase = "compound" THEN GammaCounts ELSE {3}

\* case 'complete' has no statement that can throw
FaultDraws(a, faults) == IF a.phase = "complete" THEN {"none"} ELSE faults

\* the tick of animation cur raises an exception by itself: it reaches the
\* filter in front of updateExplosion with null among the effects, which
\* only updateEffects, in 'decay' and 'absorption', drops before
TickThrows(cur) ==
    /\ cur.type = "nonelastic"
    /\ cur.phase \notin {"complete", "decay", "absorption"}
    /\ ExplosionFilterThrows(cur.effects)

\* update(delta) as animate() calls it, once in every frame; the faults of
\* the tick are drawn from faults
UpdateStep(faults) ==
    /\ op' = "update"
    /\ frame' = 1 - frame
    /\ prevPhase' = currentAnimation.phase
    /\ UNCHANGED <<speed, trailsEnabled, pending, nextGen, speedChanges>>
    /\ IF UpdateIsNoop(currentAnimation, isPlaying)
       THEN /\ ret' = "false"
            /\ UNCHANGED <<currentAnimation, isPlaying, scene, targetVisible,
                           faulted>>
       ELSE \E decays \in DecayDraws(currentAnimation),
               gammaCount \in CountDraws(currentAnimation),
               fault \in FaultDraws(currentAnimation, faults) :
              LET w == [a |-> currentAnimation, scene |-> scene,
                        vis |-> targetVisible]
                  o == AdvanceOrThrow(w, speed, trailsEnabled, decays,
                                      gammaCount, fault)
                  threw == fault # "none" \/ TickThrows(currentAnimation)
                  r == UpdateResult(o.done, threw, isPlaying)
              IN  /\ currentAnimation' = o.a
                  /\ scene' = o.scene
                  /\ targetVisible' = o.vis
                  /\ isPlaying' = r.isPlaying
                  /\ ret' = r.ret
                  /\ faulted' = (faulted \/ threw)

Update == UpdateStep(Faults)

\* a tick in which nothing throws
Tick == UpdateStep({"none"})

\* play(animation) with the animation the caller has just created
PlayPending ==
    /\ pending.gen # 0
    /\ currentAnimation' = pending
    /\ pending' = NoAnimation
    /\ isPlaying' = TRUE
    /\ faulted' = FALSE
    /\ frame' = frame
    /\ op' = "play"
    /\ ret' = "none"
    /\ prevPhase' = currentAnimation.phase
    /\ UNCHANGED <<speed, scene, targetVisible, trailsEnabled, nextGen,
                   speedChanges>>

\* a play() that starts the current animation over from 'approach'
PlayCurrentRestart ==
    /\ currentAnimation.gen # 0
    /\ ~faulted
    /\ currentAnimation' = [currentAnimation EXCEPT !.phase = "approach",
                                                     !.time = 0]
    /\ isPlaying' = TRUE
    /\ frame' = frame
    /\ op' = "play"
    /\ ret' = "none"
    /\ prevPhase' = currentAnimation.phase
    /\ UNCHANGED <<pending, speed, scene, targetVisible, trailsEnabled,
                   nextGen, speedChanges, faulted>>

\* play(animation) with the current animation again; an animation that a
\* fault abandoned is not played again
PlayCurrent ==
    /\ currentAnimation.gen # 0
    /\ ~faulted
    /\ isPlaying' = TRUE
    /\ frame' = frame
    /\ op' = "play"
    /\ ret' = "none"
    /\ prevPhase' = currentAnimation.phase
    /\ UNCHANGED <<currentAnimation, pending, speed, scene, targetVisible,
                   trailsEnabled, nextGen, speedChanges, faulted>>

\* the ids the older animator's reset() removes from the scene
ResetRemovesLegacy(cur) ==
    Ids(cur.fragments) \cup Ids(cur.trails) \cup Ids(cur.effects)
        \cup {cur.projectile.id}

\* the ids reset() removes from the scene
ResetRemoves(cur) ==
    Ids(cur.fragments) \cup Ids(cur.trails) \cup Ids(cur.effects)
        \cup Ids(cur.gammaRays) \cup Ids(cur.energyWaves)
        \cup Ids(cur.compoundNucleus) \cup Ids(cur.excitedTarget)
        \cup {cur.projectile.id}

\* a stop() that cleans the scene as reset() does
StopEffectClearing(cur, playing, sc) ==
    [currentAnimation |-> cur, isPlaying |-> FALSE,
     scene |-> sc \ ResetRemoves(cur)]

\* what stop() leaves in the animator and in the scene
StopEffect(cur, playing, sc) ==
    [currentAnimation |-> cur, isPlaying |-> FALSE, scene |-> sc]

Stop ==
    LET r == StopEffect(currentAnimation, isPlaying, scene)
    IN  /\ currentAnimation' = r.currentAnimation
        /\ isPlaying' = r.isPlaying
        /\ scene' = r.scene
        /\ frame' = frame
        /\ op' = "stop"
        /\ ret' = "none"
        /\ prevPhase' = currentAnimation.phase
        /\ UNCHANGED <<pending, speed, targetVisible, trailsEnabled, nextGen,
                       speedChanges, faulted>>

Reset ==
    /\ IF currentAnimation.gen # 0
       THEN /\ scene' = scene \ ResetRemoves(currentAnimation)
            /\ targetVisible' = TRUE
       ELSE UNCHANGED <<scene, targetVisible>>
    /\ currentAnimation' = NoAnimation
    /\ isPlaying' = FALSE
    /\ faulted' = FALSE
    /\ frame' = frame
    /\ op' = "reset"
    /\ ret' = "none"
    /\ prevPhase' = currentAnimation.phase
    /\ UNCHANGED <<pending, speed, trailsEnabled, nextGen, speedChanges>>

\* setSpeed(s); the slider is moved at most MaxSpeedChanges times, before an
\* animation starts or right after a change of phase
SetSpeed(s) ==
    /\ speedChanges < MaxSpeedChanges
    /\ currentAnimation.gen = 0 \/ prevPhase # currentAnimation.phase
    /\ speed' = s
    /\ speedChanges' = speedChanges + 1
    /\ frame' = frame
    /\ op' = "setSpeed"
    /\ ret' = "none"
    /\ prevPhase' = currentAnimation.phase
    /\ UNCHANGED <<currentAnimation, isPlaying, scene, targetVisible,
                   trailsEnabled, pending, nextGen, faulted>>

\* the caller builds a projectile, adds it to the scene and calls one of
\* the three create*Breakup operations
CreateAnimation(kind, projType, impactParam) ==
    /\ pending.gen = 0
    /\ pending' =
         CASE kind = "elastic" ->
                createElasticBreakup(nextGen, projType, impactParam)
           [] kind = "nonelastic" ->
                createNonelasticBreakup(nextGen, projType, impactParam)
           [] OTHER -> createInelasticBreakup(nextGen, projType, impactParam)
    /\ scene' = scene \cup {<<nextGen, 0>>}
    /\ nextGen' = nextGen + 1
    /\ frame' = frame
    /\ op' = "create"
    /\ ret' = "none"
    /\ prevPhase' = currentAnimation.phase
    /\ UNCHANGED <<currentAnimation, isPlaying, speed, targetVisible,
                   trailsEnabled, speedChanges, faulted>>

\* as the page does it: reset() first, then create
Create ==
    /\ currentAnimation.gen = 0
    /\ nextGen <= MaxAnims
    /\ \E kind \in Kinds, projType \in ProjectileTypes,
          impactParam \in ImpactParams :
          CreateAnimation(kind, projType, impactParam)

Init ==
    /\ currentAnimation = NoAnimation
    /\ isPlaying = FALSE
    /\ speed = 10
    /\ scene = {}
    /\ targetVisible = TRUE
    /\ trailsEnabled = TRUE
    /\ pending = NoAnimation
    /\ nextGen = 1
    /\ speedChanges = 0
    /\ faulted = FALSE
    /\ op = "init"
    /\ ret = "none"
    /\ prevPhase = "none"
    /\ frame = 0

Next ==
    \/ Create
    \/ PlayPending
    \/ PlayCurrent
    \/ Update
    \/ Stop
    \/ Reset
    \/ \E s \in Speeds : SetSpeed(s)

Spec == Init /\ [][Next]_vars

----------------------------------------------------------------------------
(* An animation created, played and ticked at a fixed speed: the speed is  *)
(* chosen before the animation is created, no tick throws, and the render  *)
(* loop, which requests a new frame at the end of each one, calls update   *)
(* again and again.  Tick is enabled in every state and changes frame, so  *)
(* its weak fairness is that it is taken infinitely often.                 *)

ChooseSpeed == currentAnimation.gen = 0 /\ \E s \in Speeds : SetSpeed(s)

LiveNext ==
    \/ Create
    \/ PlayPending
    \/ Tick
    \/ ChooseSpeed

LiveSpec ==
    /\ Init
    /\ [][LiveNext]_vars
    /\ WF_vars(Create)
    /\ WF_vars(PlayPending)
    /\ []<><<Tick>>_vars

----------------------------------------------------------------------------
(* A caller that starts a second animation while the first is current,     *)
(* without reset() in between: the second is created right after a change  *)
(* of phase of the first.                                                  *)

MaxReplaceAnims == 2

CreateFirst ==
    /\ nextGen = 1
    /\ \E kind \in Kinds : CreateAnimation(kind, "deuteron", 2000)

CreateSecond ==
    /\ 1 < nextGen
    /\ nextGen <= MaxReplaceAnims
    /\ currentAnimation.gen # 0
    /\ prevPhase # currentAnimation.phase
    /\ \E kind \in Kinds : CreateAnimation(kind, "deuteron", 4000)

ReplaceNext ==
    \/ CreateFirst
    \/ CreateSecond
    \/ PlayPending
    \/ Tick

SpecReplace == Init /\ [][ReplaceNext]_vars

----------------------------------------------------------------------------
(* The end-to-end run: createElasticBreakup with its default impact        *)
(* parameter, play, and update in every frame at the initial speed 1.      *)

DefaultElasticImpact == 3000
MaxElasticTicks == 250

\* the species the dispatch of initiateElasticBreakup names, and one it does
\* not name
DispatchTypes == {"deuteron", "li6", "li7", "triton"}

CreateElasticDefault ==
    /\ nextGen = 1
    /\ \E projType \in DispatchTypes :
          CreateAnimation("elastic", projType, DefaultElasticImpact)

ElasticNext ==
    \/ CreateElasticDefault
    \/ PlayPending
    \/ Tick

SpecElastic == Init /\ [][ElasticNext]_vars

----------------------------------------------------------------------------
(* Trails switched off and on while an animation runs: the button is       *)
(* pressed before an animation starts or right after a change of phase.    *)

\* toggleTrails()
ToggleTrails ==
    /\ currentAnimation.gen = 0 \/ prevPhase # currentAnimation.phase
    /\ trailsEnabled' = ~trailsEnabled
    /\ frame' = frame
    /\ op' = "toggleTrails"
    /\ ret' = "none"
    /\ prevPhase' = currentAnimation.phase
    /\ UNCHANGED <<currentAnimation, isPlaying, speed, scene, targetVisible,
                   pending, nextGen, speedChanges, faulted>>

\* one animation of a deuteron with impact parameter 2, of any kind
CreateDeuteron ==
    /\ nextGen = 1
    /\ \E kind \in Kinds : CreateAnimation(kind, "deuteron", 2000)

TrailsNext ==
    \/ CreateDeuteron
    \/ PlayPending
    \/ Tick
    \/ ToggleTrails

SpecTrails == Init /\ [][TrailsNext]_vars

----------------------------------------------------------------------------
(* The speed chosen before the animation is created, and the slider moved  *)
(* down to 0 in any frame while the animation runs.  At speed 0 a compound *)
(* nucleus emits cascade after cascade; the run is followed up to          *)
(* MaxCascades of them.                                                    *)

MaxCascades == 2

\* setSpeed(0)
Freeze ==
    /\ currentAnimation.gen # 0
    /\ speed # 0
    /\ speed' = 0
    /\ speedChanges' = speedChanges + 1
    /\ frame' = frame
    /\ op' = "setSpeed"
    /\ ret' = "none"
    /\ prevPhase' = currentAnimation.phase
    /\ UNCHANGED <<currentAnimation, isPlaying, scene, targetVisible,
                   trailsEnabled, pending, nextGen, faulted>>

SpeedTick == currentAnimation.cascades < MaxCascades /\ Tick

SpeedNext ==
    \/ CreateDeuteron
    \/ PlayPending
    \/ SpeedTick
    \/ ChooseSpeed
    \/ Freeze

SpecSpeed == Init /\ [][SpeedNext]_vars

-----------------------------------------------------------------------------
(* The older animator, whose nonelastic animation goes from 'breakup' to   *)
(* the 'absorption' phase that the newer one keeps as a legacy case        *)

\* createAbsorptionEffect: the absorbed fragment leaves the scene, and a
\* flash and a burst of particles twice as fast are added to the effects
createAbsorptionEffect(w, decays) ==
    LET a == w.a
        n == a.made
        flash == createAbsorptionFlash(<<a.gen, n>>)
        burst == createExplosion(a.gen, n + 1, decays)
        gammas == [i \in 1 .. Len(burst) |->
                      [burst[i] EXCEPT !.vel = 2 * @]]
    IN  [w EXCEPT
            !.scene = ((@ \ {a.fragments[a.absorbedFragment].id})
                         \cup {flash.id}) \cup Ids(gammas),
            !.a = [a EXCEPT
                     !.effects = (@ \o <<flash>>) \o gammas,
                     !.made = n + 1 + ParticleCount]]

\* case 'breakup' of the older updateNonelasticBreakup
LegacyBreakupStep(w, sp, enabled, decays) ==
    LET a == w.a
        k == a.escapingFragment
        esc == ElasticFragmentStep(a.fragments[k], sp)
        w1 == IF k = 0 THEN w
              ELSE [w EXCEPT
                      !.a.fragments[k] = esc,
                      !.a.trails = IF Len(a.trails) >= 1
                                   THEN [@ EXCEPT ![1] =
                                           updateTrail(@, esc.pos, enabled)]
                                   ELSE @]
        j == a.absorbedFragment
        absorbed == w1.a.fragments[j]
        distToCore == Dist(absorbed.pos, TargetPos)
    IN  IF j = 0 THEN w1
        ELSE IF distToCore > CaptureDist
        THEN [w1 EXCEPT !.a.fragments[j].pos =
                 VClamp(VAdd(@, TowardTarget(absorbed.pos, distToCore, sp)))]
        ELSE createAbsorptionEffect([w1 EXCEPT !.a.phase = "absorption"],
                                    decays)

\* the older updateNonelasticBreakup
updateNonelasticLegacy(w, sp, enabled, decays) ==
    LET a == AdvanceTime(w.a, sp)
        w0 == [w EXCEPT !.a = a]
    IN  IF a.phase = "complete" THEN Outcome(w0, TRUE)
        ELSE LET w1 ==
                   CASE a.phase = "approach" ->
                          LET s == ApproachStep(a, NonelasticK, sp)
                          IN  IF s.dist < NonelasticBreakupDist
                              THEN initiateNonelasticBreakup(
                                     [w EXCEPT !.a = [s.a EXCEPT
                                                 !.phase = "breakup"]], decays)
                              ELSE [w EXCEPT !.a = s.a]
                     [] a.phase = "breakup" ->
                          LegacyBreakupStep(w0, sp, enabled, decays)
                     [] a.phase = "absorption" ->
                          AbsorptionStep(w0, sp, enabled)
                     [] OTHER -> w0
             IN  Outcome(UpdateExplosionOnCopy(w1), FALSE)

\* the random draws a tick of the older animator can consume
LegacyDraws(a) ==
    IF a.phase \in {"approach", "breakup"}
    THEN [1 .. ParticleCount -> ExplosionDecays]
    ELSE {[i \in 1 .. ParticleCount |-> 20]}

\* update(delta) of the older animator, in a frame in which nothing throws
LegacyTick ==
    /\ op' = "update"
    /\ frame' = 1 - frame
    /\ prevPhase' = currentAnimation.phase
    /\ UNCHANGED <<speed, trailsEnabled, pending, nextGen, speedChanges>>
    /\ IF UpdateIsNoop(currentAnimation, isPlaying)
       THEN /\ ret' = "false"
            /\ UNCHANGED <<currentAnimation, isPlaying, scene, targetVisible,
                           faulted>>
       ELSE \E decays \in LegacyDraws(currentAnimation) :
              LET w == [a |-> currentAnimation, scene |-> scene,
                        vis |-> targetVisible]
                  o == updateNonelasticLegacy(w, speed, trailsEnabled, decays)
                  r == UpdateResult(o.done, TickThrows(currentAnimation),
                                    isPlaying)
              IN  /\ currentAnimation' = o.a
                  /\ scene' = o.scene
                  /\ targetVisible' = o.vis
                  /\ isPlaying' = r.isPlaying
                  /\ ret' = r.ret
                  /\ faulted' = (faulted \/ TickThrows(currentAnimation))

\* a nonelastic animation of either projectile at either impact parameter
CreateNonelastic ==
    /\ nextGen = 1
    /\ \E projType \in ProjectileTypes, impactParam \in ImpactParams :
          CreateAnimation("nonelastic", projType, impactParam)

LegacyNext ==
    \/ CreateNonelastic
    \/ PlayPending
    \/ LegacyTick
    \/ ChooseSpeed
    \/ ToggleTrails

SpecLegacy == Init /\ [][LegacyNext]_vars

-----------------------------------------------------------------------------
(* The animation is an object the caller holds too: code outside the       *)
(* animator can leave null, or an object without userData, in its effects  *)

\* one entry of currentAnimation.effects overwritten by null, or its
\* userData deleted, right after a change of phase
Corrupt ==
    /\ currentAnimation.gen # 0
    /\ prevPhase # currentAnimation.phase
    /\ \A i \in 1 .. Len(currentAnimation.effects) :
           ~LacksData(currentAnimation.effects[i])
    /\ \E i \in 1 .. Len(currentAnimation.effects) :
          \/ currentAnimation' =
                [currentAnimation EXCEPT !.effects[i] = NullEffect]
          \/ currentAnimation' =
                [currentAnimation EXCEPT !.effects[i].kind = "bare"]
    /\ frame' = frame
    /\ op' = "corrupt"
    /\ ret' = "none"
    /\ prevPhase' = currentAnimation.phase
    /\ UNCHANGED <<isPlaying, speed, scene, targetVisible, trailsEnabled,
                   pending, nextGen, speedChanges, faulted>>

CorruptNext ==
    \/ CreateDeuteron
    \/ PlayPending
    \/ Tick
    \/ Corrupt

SpecCorrupt == Init /\ [][CorruptNext]_vars

-----------------------------------------------------------------------------
(* The update operations of ParticleSystem on their own: one effect, as    *)
(* its constructor makes it, updated again and again, also after it died   *)

EffectKinds == {"gamma", "wave", "finalWave", "compound", "excited", "flash"}

\* the effect of kind k in the field that holds its kind
Holder(k) ==
    [NoAnimation EXCEPT
        !.gammaRays = IF k = "gamma" THEN <<createGammaRay(<<0, 1>>)>> ELSE @,
        !.energyWaves =
            IF k = "wave" THEN <<createEnergyWave(<<0, 1>>, 6000)>>
            ELSE IF k = "finalWave" THEN <<createEnergyWave(<<0, 1>>, 8000)>>
            ELSE @,
        !.compoundNucleus =
            IF k = "compound" THEN <<createCompoundNucleus(<<0, 1>>)>> ELSE @,
        !.excitedTarget =
            IF k = "excited" THEN <<createExcitedTarget(<<0, 1>>)>> ELSE @,
        !.effects =
            IF k = "flash" THEN <<createAbsorptionFlash(<<0, 1>>)>> ELSE @]

EffectsInit ==
    /\ currentAnimation \in {Holder(k) : k \in EffectKinds}
    /\ isPlaying = FALSE
    /\ speed = 10
    /\ scene = {}
    /\ targetVisible = TRUE
    /\ trailsEnabled = TRUE
    /\ pending = NoAnimation
    /\ nextGen = 1
    /\ speedChanges = 0
    /\ faulted = FALSE
    /\ op = "init"
    /\ ret = "none"
    /\ prevPhase = "none"
    /\ frame = 0

\* the call name(effect) has returned alive
Returned(name, alive) ==
    /\ op' = name
    /\ ret' = IF alive THEN "true" ELSE "false"
    /\ UNCHANGED <<isPlaying, speed, scene, targetVisible, trailsEnabled,
                   pending, nextGen, speedChanges, faulted, prevPhase, frame>>

CallGammaRay ==
    /\ currentAnimation.gammaRays # <<>>
    /\ currentAnimation.gammaRays[1].life > -DeadLifeCap
    /\ LET u == updateGammaRay(currentAnimation.gammaRays[1])
       IN  /\ currentAnimation' =
                 [currentAnimation EXCEPT !.gammaRays = <<u.e>>]
           /\ Returned("updateGammaRay", u.alive)

CallEnergyWave ==
    /\ currentAnimation.energyWaves # <<>>
    /\ currentAnimation.energyWaves[1].life > -DeadLifeCap
    /\ LET u == updateEnergyWave(currentAnimation.energyWaves[1])
       IN  /\ currentAnimation' =
                 [currentAnimation EXCEPT !.energyWaves = <<u.e>>]
           /\ Returned("updateEnergyWave", u.alive)

CallCompoundNucleus ==
    /\ currentAnimation.compoundNucleus # <<>>
    /\ currentAnimation.compoundNucleus[1].life > -DeadLifeCap
    /\ LET u == updateCompoundNucleus(currentAnimation.compoundNucleus[1])
       IN  /\ currentAnimation' =
                 [currentAnimation EXCEPT !.compoundNucleus = <<u.e>>]
           /\ Returned("updateCompoundNucleus", u.alive)

CallExcitedTarget ==
    /\ currentAnimation.excitedTarget # <<>>
    /\ currentAnimation.excitedTarget[1].life > -DeadLifeCap
    /\ LET u == updateExcitedTarget(currentAnimation.excitedTarget[1])
       IN  /\ currentAnimation' =
                 [currentAnimation EXCEPT !.excitedTarget = <<u.e>>]
           /\ Returned("updateExcitedTarget", u.alive)

CallAbsorptionFlash ==
    /\ currentAnimation.effects # <<>>
    /\ currentAnimation.effects[1].life > -DeadLifeCap
    /\ LET u == updateAbsorptionFlash(currentAnimation.effects[1])
       IN  /\ currentAnimation' =
                 [currentAnimation EXCEPT !.effects = <<u.e>>]
           /\ Returned("updateAbsorptionFlash", u.alive)

EffectsNext ==
    \/ CallGammaRay
    \/ CallEnergyWave
    \/ CallCompoundNucleus
    \/ CallExcitedTarget
    \/ CallAbsorptionFlash

SpecEffects == EffectsInit /\ [][EffectsNext]_vars

-----------------------------------------------------------------------------
(* The page: the render loop animate(), one frame after the other, and the *)
(* start button of the hero scene.  The animator followed is the one of    *)
(* the hero scene; the animators of the two comparison scenes are updated  *)
(* and rendered in every frame without an animation of their own.  A       *)
(* handler runs between two frames, never inside one.                      *)

MaxPageAnims == 2

\* the projectile initHeroScene puts into the scene
IdleProjectile == <<0, 0>>

\* the statements of one frame that look at an animator or its scene, in
\* the order animate() executes them ("update" and "render" are those of
\* the hero scene)
AnimateStepsRenderFirst ==
    <<"render", "update", "elastic.update", "elastic.render",
      "nonelastic.update", "nonelastic.render">>

AnimateSteps ==
    <<"update", "render", "elastic.update", "elastic.render",
      "nonelastic.update", "nonelastic.render">>

\* o is a statement of the frame other than the last one
MidFrame(o) ==
    \E i \in 1 .. Len(AnimateSteps) - 1 : AnimateSteps[i] = o

\* the statement animate() executes after o
StepAfter(o) ==
    IF MidFrame(o)
    THEN AnimateSteps[1 + CHOOSE i \in 1 .. Len(AnimateSteps) - 1 :
                              AnimateSteps[i] = o]
    ELSE AnimateSteps[1]

\* name is the statement to execute now; a handler that has begun runs to
\* its end first
Due(name) == op # "reset" /\ StepAfter(op) = name

\* renderer.render(scene, camera)
Rendered(name) ==
    /\ Due(name)
    /\ op' = name
    /\ UNCHANGED <<currentAnimation, isPlaying, speed, scene, targetVisible,
                   trailsEnabled, pending, nextGen, speedChanges, faulted,
                   ret, prevPhase, frame>>

\* update(delta) of an animator without a current animation
IdleUpdate(name) ==
    /\ Due(name)
    /\ op' = name
    /\ ret' = "false"
    /\ UNCHANGED <<currentAnimation, isPlaying, speed, scene, targetVisible,
                   trailsEnabled, pending, nextGen, speedChanges, faulted,
                   prevPhase, frame>>

HeroUpdate == Due("update") /\ Tick

HeroRender == Rendered("render")

ElasticUpdate == IdleUpdate("elastic.update")

ElasticRender == Rendered("elastic.render")

NonelasticUpdate == IdleUpdate("nonelastic.update")

NonelasticRender == Rendered("nonelastic.render")

\* a handler that leaves the animator and its animation as they are
ResetSkipped(cur, sc, vis) ==
    [currentAnimation |-> cur, scene |-> sc, vis |-> vis]

\* if (state.animators.hero) state.animators.hero.reset()
ResetFirst(cur, sc, vis) ==
    [currentAnimation |-> NoAnimation,
     scene |-> IF cur.gen # 0 THEN sc \ ResetRemoves(cur) ELSE sc,
     vis |-> IF cur.gen # 0 THEN TRUE ELSE vis]

\* startHeroAnimation up to the reset of the animator: the button is
\* clicked before the first animation, or right after a change of phase
\* of an animation that has not completed
StartHeroReset ==
    /\ ~MidFrame(op)
    /\ op # "reset"
    /\ nextGen <= MaxPageAnims
    /\ \/ currentAnimation.gen = 0
       \/ /\ prevPhase # currentAnimation.phase
          /\ currentAnimation.phase # "complete"
    /\ LET r == ResetFirst(currentAnimation, scene, targetVisible)
       IN  /\ currentAnimation' = r.currentAnimation
           /\ scene' = r.scene
           /\ targetVisible' = r.vis
    /\ isPlaying' = FALSE
    /\ faulted' = FALSE
    /\ op' = "reset"
    /\ ret' = "none"
    /\ prevPhase' = currentAnimation.phase
    /\ UNCHANGED <<speed, trailsEnabled, pending, nextGen, speedChanges,
                   frame>>

\* the rest of startHeroAnimation: the old projectile leaves the scene, a
\* new deuteron enters it, createNonelasticBreakup and play
StartHeroPlay ==
    /\ op = "reset"
    /\ \E impactParam \in ImpactParams :
          currentAnimation' =
              createNonelasticBreakup(nextGen, "deuteron", impactParam)
    /\ scene' = (scene \ {IF nextGen = 1 THEN IdleProjectile
                           ELSE <<nextGen - 1, 0>>})
                  \cup {<<nextGen, 0>>}
    /\ nextGen' = nextGen + 1
    /\ isPlaying' = TRUE
    /\ op' = "start"
    /\ ret' = "none"
    /\ prevPhase' = currentAnimation.phase
    /\ UNCHANGED <<speed, targetVisible, trailsEnabled, pending,
                   speedChanges, faulted, frame>>

PageInit ==
    /\ currentAnimation = NoAnimation
    /\ isPlaying = FALSE
    /\ speed = 10
    /\ scene = {IdleProjectile}
    /\ targetVisible = TRUE
    /\ trailsEnabled = TRUE
    /\ pending = NoAnimation
    /\ nextGen = 1
    /\ speedChanges = 0
    /\ faulted = FALSE
    /\ op = "init"
    /\ ret = "none"
    /\ prevPhase = "none"
    /\ frame = 0

PageNext ==
    \/ HeroUpdate
    \/ HeroRender
    \/ ElasticUpdate
    \/ ElasticRender
    \/ NonelasticUpdate
    \/ NonelasticRender
    \/ StartHeroReset
    \/ StartHeroPlay

SpecPage == PageInit /\ [][PageNext]_vars

----------------------------------------------------------------------------
(* Properties of update, reset, play and stop                              *)

\* C1: while an animation is playing, update returns true exactly when the
\* animation is in phase 'complete' at the call or the tick threw, and then
\* isPlaying is false; otherwise it returns false and isPlaying stays true
C1_UpdateReturn ==
    [][(op' = "update" /\ currentAnimation.gen # 0 /\ isPlaying) =>
          LET signalled == \/ currentAnimation.phase = "complete"
                           \/ (faulted' /\ ~faulted)
          IN  /\ (ret' = "true") <=> signalled
              /\ ret' = "true" => ~isPlaying'
              /\ ret' # "true" => (ret' = "false" /\ isPlaying')]_vars

\* an update that found the animation complete has returned true
C1_Witness ==
    /\ op = "update"
    /\ ret = "true"
    /\ currentAnimation.phase = "complete"
    /\ ~faulted
    /\ ~isPlaying

\* C2: an exception raised inside a tick never leaves update: the tick
\* returns true with isPlaying false, and every later update of the
\* abandoned animation is a no-op that returns false
C2_FaultContained ==
    [][op' = "update" =>
          /\ ret' \in {"true", "false"}
          /\ (faulted' /\ ~faulted) => (ret' = "true" /\ ~isPlaying')
          /\ faulted => /\ ret' = "false"
                         /\ ~isPlaying'
                         /\ faulted'
                         /\ currentAnimation' = currentAnimation
                         /\ scene' = scene]_vars

\* an update called after a fault in the compound phase did nothing
C2_Witness ==
    /\ faulted
    /\ op = "update"
    /\ ret = "false"
    /\ ~isPlaying
    /\ currentAnimation.phase = "compound"

\* C3: reset leaves in the scene nothing that the discarded animation
\* added, target.visible true, no current animation and isPlaying false
C3_ResetCleans ==
    [][op' = "reset" =>
          /\ currentAnimation' = NoAnimation
          /\ ~isPlaying'
          /\ targetVisible'
          /\ currentAnimation.gen # 0 =>
                \A id \in scene' : id[1] # currentAnimation.gen]_vars

\* reset was called in the compound phase, the target hidden
C3_Witness ==
    /\ op = "reset"
    /\ prevPhase = "compound"
    /\ scene = {}
    /\ targetVisible

\* the place of a phase in the order of its kind (0: not in the order)
PhaseRank(a) ==
    LET order == CASE a.type = "elastic" ->
                        <<"approach", "breakup", "complete">>
                   [] a.type = "nonelastic" ->
                        <<"approach", "breakup", "compound", "decay",
                          "complete">>
                   [] OTHER -> <<"approach", "escape", "complete">>
        at == {i \in 1 .. Len(order) : order[i] = a.phase}
    IN  IF at = {} THEN 0 ELSE CHOOSE i \in at : TRUE

\* C4: as long as the animation stays current, whatever is called, its
\* phase is a phase of its kind's order and never moves backward in it; a
\* complete animation stays complete
C4_PhaseMonotonic ==
    [][(currentAnimation.gen # 0
           /\ currentAnimation'.gen = currentAnimation.gen) =>
          /\ PhaseRank(currentAnimation') >= PhaseRank(currentAnimation)
          /\ PhaseRank(currentAnimation') > 0
          /\ currentAnimation.phase = "complete" =>
                currentAnimation'.phase = "complete"]_vars

\* a complete nonelastic animation was played again and ticked
C4_Witness ==
    /\ currentAnimation.type = "nonelastic"
    /\ currentAnimation.phase = "complete"
    /\ prevPhase = "complete"
    /\ op = "update"
    /\ ret = "true"

\* C5: an animation of any kind, created with any impact parameter, played
\* and ticked at a fixed positive speed, eventually reaches phase 'complete'
C5_EventuallyComplete == <>(currentAnimation.phase = "complete")

\* C6: with no current animation or with isPlaying false, update returns
\* false and changes neither the animator, nor the animation, nor the scene
C6_UpdateNoop ==
    [][(op' = "update" /\ (currentAnimation.gen = 0 \/ ~isPlaying)) =>
          /\ ret' = "false"
          /\ UNCHANGED <<currentAnimation, isPlaying, speed, scene,
                         targetVisible, trailsEnabled, pending>>]_vars

\* update was called on an animation stopped in the middle of its breakup
C6_Witness ==
    /\ op = "update"
    /\ ret = "false"
    /\ ~isPlaying
    /\ ~faulted
    /\ currentAnimation.phase = "breakup"
    /\ scene # {}

\* C7: after play(b), nothing that the animation current before it added
\* (fragments, trails, effects, gamma rays, energy waves) is in the scene
C7_PlayDiscardsPrevious ==
    op = "play" =>
        \A id \in scene : id[1] # currentAnimation.gen => id[2] = 0

\* what the current animation holds in its collections
OwnedIds(a) ==
    Ids(a.fragments) \cup Ids(a.trails) \cup Ids(a.effects)
        \cup Ids(a.gammaRays) \cup Ids(a.energyWaves)
        \cup Ids(a.compoundNucleus) \cup Ids(a.excitedTarget)

\* C8, as stated: stop leaves isPlaying false, keeps the current animation
\* and leaves none of its entities and effects in the scene
C8_StopRemovesEntities ==
    op = "stop" =>
        /\ ~isPlaying
        /\ scene \cap OwnedIds(currentAnimation) = {}

\* C8, amended: stop leaves isPlaying false, keeps the current animation
\* and removes nothing from the scene
C8_StopKeepsScene ==
    [][op' = "stop" =>
          /\ ~isPlaying'
          /\ currentAnimation' = currentAnimation
          /\ scene' = scene]_vars

\* stop was called while the fragments of a breakup were in the scene
C8_Witness ==
    /\ op = "stop"
    /\ ~isPlaying
    /\ currentAnimation.phase = "breakup"
    /\ scene \cap Ids(currentAnimation.fragments) # {}

\* C9: a nonelastic animation emits the compound-phase cascade exactly
\* once: at most once ever, and once by the time 'decay' has begun
C9_CascadeOnce ==
    currentAnimation.type = "nonelastic" =>
        /\ currentAnimation.cascades <= 1
        /\ currentAnimation.phase \in {"decay", "complete"} =>
              currentAnimation.cascades = 1

\* the effects of every kind that animation a holds in its collections
HeldEffects(a) ==
    {[id |-> a.effects[i].id, life |-> a.effects[i].life] :
         i \in 1 .. Len(a.effects)}
        \cup {[id |-> a.gammaRays[i].id, life |-> a.gammaRays[i].life] :
                 i \in 1 .. Len(a.gammaRays)}
        \cup {[id |-> a.energyWaves[i].id, life |-> a.energyWaves[i].life] :
                 i \in 1 .. Len(a.energyWaves)}
        \cup {[id |-> a.compoundNucleus[i].id,
                life |-> a.compoundNucleus[i].life] :
                 i \in 1 .. Len(a.compoundNucleus)}
        \cup {[id |-> a.excitedTarget[i].id,
                life |-> a.excitedTarget[i].life] :
                 i \in 1 .. Len(a.excitedTarget)}

\* C10: at the end of a tick no effect with life <= 0 is left in its
\* collection or in the scene
C10_NoDeadEffects ==
    op = "update" =>
        \A e \in HeldEffects(currentAnimation) : e.life > 0

----------------------------------------------------------------------------
(* Properties of the three kinds of animation                              *)

\* C11: an elastic animation created with impact parameter 3 and ticked at
\* speed 1 is complete after at most MaxElasticTicks ticks (time counts
\* them), having broken up into two fragments that are both farther than
\* 15 from the target
C11_ElasticCompletes ==
    currentAnimation.gen # 0 =>
        /\ currentAnimation.time >= MaxElasticTicks * Delta =>
              currentAnimation.phase = "complete"
        /\ currentAnimation.phase = "complete" =>
              /\ Len(currentAnimation.fragments) = 2
              /\ \A i \in 1 .. 2 :
                    Dist(currentAnimation.fragments[i].pos, TargetPos)
                        > EscapeDist

\* the run has completed and update has said so
C11_Witness ==
    /\ currentAnimation.type = "elastic"
    /\ currentAnimation.impactParam = DefaultElasticImpact
    /\ currentAnimation.phase = "complete"
    /\ currentAnimation.time < MaxElasticTicks * Delta
    /\ op = "update"
    /\ ret = "true"

\* C12: each create*Breakup puts the projectile at (target.x - 12,
\* impactParam, 0) with velocity (0.2, 0, 0) and returns an animation in
\* phase 'approach' with time 0 and no fragments, trails and effects, and
\* leaves currentAnimation, isPlaying and speed of the animator as they were
C12_CreateFrame ==
    [][op' = "create" =>
          /\ pending'.phase = "approach"
          /\ pending'.time = 0
          /\ pending'.projectile.pos
                = <<TargetX - 12000, pending'.impactParam, 0>>
          /\ pending'.projectile.vel = <<200000, 0, 0>>
          /\ pending'.fragments = <<>>
          /\ pending'.trails = <<>>
          /\ pending'.effects = <<>>
          /\ UNCHANGED <<currentAnimation, isPlaying, speed>>]_vars

\* a nonelastic animation was created while another one was playing
C12_Witness ==
    /\ op = "create"
    /\ pending.type = "nonelastic"
    /\ pending.projectile.pos = <<-7000, 4000, 0>>
    /\ currentAnimation.gen # 0
    /\ currentAnimation.phase = "breakup"
    /\ isPlaying

\* C13: on the tick of the elastic breakup the two fragments stand at the
\* position of the projectile plus (0, 0.3, 0) and plus (0, -0.3, 0), and
\* their species are those the table gives for the species of the projectile
C13_ElasticFragments ==
    (/\ currentAnimation.type = "elastic"
     /\ op = "update"
     /\ prevPhase = "approach"
     /\ currentAnimation.phase = "breakup")
    => LET a == currentAnimation
           species == <<a.fragments[1].type, a.fragments[2].type>>
       IN  /\ Len(a.fragments) = 2
           /\ a.fragments[1].pos = VAdd(a.projectile.pos, <<0, 300, 0>>)
           /\ a.fragments[2].pos = VAdd(a.projectile.pos, <<0, -300, 0>>)
           /\ species = CASE a.projectile.type = "deuteron" ->
                                <<"proton", "neutron">>
                           [] a.projectile.type = "li6" ->
                                <<"alpha", "deuteron">>
                           [] a.projectile.type = "li7" ->
                                <<"alpha", "proton">>
                           [] OTHER -> <<"proton", "neutron">>

\* a projectile of a species outside the table has just broken up
C13_Witness ==
    /\ currentAnimation.type = "elastic"
    /\ op = "update"
    /\ prevPhase = "approach"
    /\ currentAnimation.phase = "breakup"
    /\ currentAnimation.projectile.type = "triton"
    /\ currentAnimation.fragments[1].type = "proton"
    /\ currentAnimation.fragments[1].pos[2] =
           currentAnimation.projectile.pos[2] + 300

\* C14: a tick that emits a cascade is an update in phase 'compound' that
\* began with no gamma ray in the collection, emits one cascade of 3 to 5
\* gamma rays (the entry into 'decay' adds 2 more), and leaves resonanceTime
\* above 0.6 * maxResonanceTime
C14_CascadeGuard ==
    [][(/\ currentAnimation'.gen = currentAnimation.gen
        /\ currentAnimation'.cascades > currentAnimation.cascades)
       => /\ op' = "update"
          /\ currentAnimation.type = "nonelastic"
          /\ currentAnimation.phase = "compound"
          /\ currentAnimation'.cascades = currentAnimation.cascades + 1
          /\ currentAnimation.gammaRays = <<>>
          /\ currentAnimation'.resonanceTime * 10
                > currentAnimation'.maxResonanceTime * 6
          /\ Len(currentAnimation'.gammaRays)
                - (IF currentAnimation'.phase = "decay" THEN 2 ELSE 0)
                \in 3 .. 5]_vars

\* a cascade of four gamma rays has just been emitted
C14_Witness ==
    /\ op = "update"
    /\ currentAnimation.phase = "compound"
    /\ currentAnimation.cascades = 1
    /\ Len(currentAnimation.gammaRays) = 4
    /\ currentAnimation.gammaRays[1].life = FullLife - GammaDecay
    /\ currentAnimation.resonanceTime * 10
          > currentAnimation.maxResonanceTime * 6

\* C15: an effect whose life is already <= 0 is left as it was by every
\* step: whatever update operation is applied to it changes neither its
\* position nor its opacity (the opacity of an explosion particle is its
\* life)
C15_DeadEffectUntouched ==
    [][\A i \in 1 .. Len(currentAnimation.effects) :
          \A j \in 1 .. Len(currentAnimation'.effects) :
             (/\ currentAnimation'.gen = currentAnimation.gen
              /\ currentAnimation.effects[i].life <= 0
              /\ currentAnimation'.effects[j].id
                    = currentAnimation.effects[i].id)
             => /\ currentAnimation'.effects[j].pos
                      = currentAnimation.effects[i].pos
                /\ currentAnimation'.effects[j].life
                      = currentAnimation.effects[i].life]_vars

C17_Advancing ==
    /\ op' = "update"
    /\ ~UpdateIsNoop(currentAnimation, isPlaying)
    /\ currentAnimation.phase # "complete"

\* a setSpeed call changes nothing of the animator, the animation and the
\* scene but the speed
C17_OnlySpeed ==
    op' = "setSpeed" =>
        UNCHANGED <<currentAnimation, isPlaying, scene, targetVisible,
                    trailsEnabled, pending>>

\* time by delta * m, resonanceTime by m in 'compound', and the projectile
\* by m times its velocity in 'approach'
C17_Clocks ==
    C17_Advancing =>
        LET a == currentAnimation
            b == currentAnimation'
        IN  /\ b.time = AdvanceTime(a, speed).time
            /\ b.resonanceTime =
                  a.resonanceTime + (IF a.phase = "compound" THEN speed ELSE 0)
            /\ b.projectile.pos =
                  IF a.phase = "approach"
                  THEN MoveAs(a.projectile.pos, a.projectile.vel, speed)
                  ELSE a.projectile.pos

C18_NonelasticPhases ==
    [][(/\ currentAnimation.type = "nonelastic"
        /\ currentAnimation'.gen = currentAnimation.gen
        /\ currentAnimation'.phase # currentAnimation.phase)
       => LET a == currentAnimation
              b == currentAnimation'
          IN  /\ op' = "update"
              /\ \/ /\ a.phase = "approach"
                    /\ b.phase = "breakup"
                    /\ Dist(b.projectile.pos, TargetPos) < 3000
                    /\ NonelasticBreakupDist < ElasticBreakupDist
                 \/ /\ a.phase = "breakup"
                    /\ b.phase = "compound"
                    /\ a.absorbedFragment # 0
                    /\ Dist(a.fragments[a.absorbedFragment].pos, TargetPos)
                          <= 2200
                 \/ /\ a.phase = "compound"
                    /\ b.phase = "decay"
                    /\ b.maxResonanceTime = 800
                    /\ b.resonanceTime > b.maxResonanceTime
                 \/ /\ a.phase = "decay"
                    /\ b.phase = "complete"
                    /\ b.escapingFragment # 0
                    /\ Dist(b.fragments[b.escapingFragment].pos, TargetPos)
                          > 15000]_vars

\* the escaping fragment has gone farther than 15 from the target during
\* 'decay' and the animation is complete
C18_Witness ==
    /\ currentAnimation.type = "nonelastic"
    /\ op = "update"
    /\ prevPhase = "decay"
    /\ currentAnimation.phase = "complete"
    /\ currentAnimation.resonanceTime > 800
    /\ Dist(currentAnimation.fragments[currentAnimation.escapingFragment].pos,
            TargetPos) > 15000

\* C19: an elastic animation changes phase only from 'approach' to
\* 'breakup' on a tick that leaves the moved projectile closer than 3.5 to
\* the target, and from 'breakup' to 'complete' on a tick that leaves every
\* fragment farther than 15 from it
C19_ElasticPhases ==
    [][(/\ currentAnimation.type = "elastic"
        /\ currentAnimation'.gen = currentAnimation.gen
        /\ currentAnimation'.phase # currentAnimation.phase)
       => LET a == currentAnimation
              b == currentAnimation'
          IN  /\ op' = "update"
              /\ \/ /\ a.phase = "approach"
                    /\ b.phase = "breakup"
                    /\ b.projectile.pos # a.projectile.pos
                    /\ Dist(b.projectile.pos, TargetPos) < 3500
                 \/ /\ a.phase = "breakup"
                    /\ b.phase = "complete"
                    /\ Len(b.fragments) = 2
                    /\ \A i \in 1 .. Len(b.fragments) :
                          Dist(b.fragments[i].pos, TargetPos) > 15000]_vars

\* the slower fragment has followed the faster one out of the range of 15
\* and the elastic animation is complete
C19_Witness ==
    /\ currentAnimation.type = "elastic"
    /\ op = "update"
    /\ prevPhase = "breakup"
    /\ currentAnimation.phase = "complete"
    /\ Dist(currentAnimation.fragments[1].pos, TargetPos) > 15000
    /\ Dist(currentAnimation.fragments[2].pos, TargetPos) > 15000
    /\ Dist(currentAnimation.fragments[1].pos, TargetPos)
          # Dist(currentAnimation.fragments[2].pos, TargetPos)

\* C20: in an inelastic animation the excitation, which creates the two
\* fragments and the excited target, happens at most once: on a tick in
\* 'approach' that began with no fragment and no excited target, leaves the
\* projectile closer than 3.5 to the target and leaves the phase 'approach';
\* and the phase becomes 'escape' only from 'approach' on a tick that
\* leaves the projectile's x above target.x + 5
C20_ExcitationOnce ==
    [][(/\ currentAnimation.type = "inelastic"
        /\ currentAnimation'.gen = currentAnimation.gen)
       => LET a == currentAnimation
              b == currentAnimation'
          IN  /\ Len(b.fragments) <= 2
              /\ (Len(b.fragments) > Len(a.fragments)
                     \/ (a.excitedTarget = <<>> /\ b.excitedTarget # <<>>))
                  => /\ op' = "update"
                     /\ a.phase = "approach"
                     /\ b.phase = "approach"
                     /\ a.fragments = <<>>
                     /\ a.excitedTarget = <<>>
                     /\ Len(b.fragments) = 2
                     /\ b.excitedTarget # <<>>
                     /\ Dist(b.projectile.pos, TargetPos) < 3500
              /\ (a.phase # "escape" /\ b.phase = "escape")
                  => /\ op' = "update"
                     /\ a.phase = "approach"
                     /\ b.projectile.pos[1] > TargetX + 5000]_vars

\* the target was excited on an earlier tick, and the projectile is still
\* closer than 3.5 to it, in 'approach', after the tick that followed
C20_Witness ==
    /\ currentAnimation.type = "inelastic"
    /\ op = "update"
    /\ currentAnimation.phase = "approach"
    /\ Len(currentAnimation.fragments) = 2
    /\ currentAnimation.excitedTarget # <<>>
    /\ Dist(currentAnimation.projectile.pos, TargetPos) < 3500
    /\ currentAnimation.fragments[1].pos
          # VAdd(currentAnimation.projectile.pos, <<0, 200, 0>>)

\* C21: an inelastic animation enters 'complete' only from 'escape', on a
\* tick that leaves every fragment farther than 15 from the target, the
\* gammaRays collection empty and excitedTarget null; and a gamma ray or
\* an excited target that leaves its collection leaves the scene in the
\* same step, so that none of them is in the scene at completion
C21_InelasticComplete ==
    [][(/\ currentAnimation.type = "inelastic"
        /\ currentAnimation'.gen = currentAnimation.gen)
       => LET a == currentAnimation
              b == currentAnimation'
          IN  /\ (a.phase # "complete" /\ b.phase = "complete")
                  => /\ op' = "update"
                     /\ a.phase = "escape"
                     /\ \A i \in 1 .. Len(b.fragments) :
                           Dist(b.fragments[i].pos, TargetPos) > 15000
                     /\ b.gammaRays = <<>>
                     /\ b.excitedTarget = <<>>
              /\ (Ids(a.gammaRays) \ Ids(b.gammaRays)) \cap scene' = {}
              /\ (Ids(a.excitedTarget) \ Ids(b.excitedTarget)) \cap scene'
                    = {}]_vars

\* an inelastic animation whose target was excited has completed: the
\* fragments are far, the excited target has died and its gamma rays too
C21_Witness ==
    /\ currentAnimation.type = "inelastic"
    /\ op = "update"
    /\ prevPhase = "escape"
    /\ currentAnimation.phase = "complete"
    /\ Len(currentAnimation.fragments) = 2
    /\ AllBeyond(currentAnimation.fragments, EscapeDist)
    /\ currentAnimation.gammaRays = <<>>
    /\ currentAnimation.excitedTarget = <<>>
    /\ targetVisible

\* C22: an elastic animation never comes back to 'approach', and the tick
\* that takes it from 'approach' to 'breakup' removes the projectile from
\* the scene and adds to the scene, and records in fragments, trails and
\* effects, two fragments, the trail of each and the particles of one
\* explosion, and nothing else
C22_ElasticBreakupOnce ==
    [][(/\ currentAnimation.type = "elastic"
        /\ currentAnimation'.gen = currentAnimation.gen)
       => LET a == currentAnimation
              b == currentAnimation'
              added == (Ids(b.fragments) \cup Ids(b.trails))
                          \cup Ids(b.effects)
          IN  /\ b.phase = "approach" => a.phase = "approach"
              /\ (a.phase = "approach" /\ b.phase = "breakup")
                  => /\ op' = "update"
                     /\ a.projectile.id \in scene
                     /\ a.fragments = <<>> /\ a.trails = <<>>
                     /\ a.effects = <<>>
                     /\ Len(b.fragments) = 2
                     /\ Len(b.trails) = 2
                     /\ \A i \in 1 .. 2 :
                           /\ b.trails[i].particle = i
                           /\ b.trails[i].points[1] = b.fragments[i].pos
                     /\ Len(b.effects) = ParticleCount
                     /\ \A i \in 1 .. Len(b.effects) :
                           b.effects[i].kind = "explosion"
                     /\ Cardinality(added) = 4 + ParticleCount
                     /\ added \cap scene = {}
                     /\ scene' = (scene \ {a.projectile.id}) \cup added
      ]_vars

\* the tick of the breakup has replaced the projectile in the scene by two
\* fragments, two trails and the explosion
C22_Witness ==
    /\ currentAnimation.type = "elastic"
    /\ op = "update"
    /\ prevPhase = "approach"
    /\ currentAnimation.phase = "breakup"
    /\ currentAnimation.projectile.id \notin scene
    /\ Ids(currentAnimation.fragments) \subseteq scene
    /\ Ids(currentAnimation.trails) \subseteq scene
    /\ Ids(currentAnimation.effects) \subseteq scene
    /\ Cardinality(scene) = 4 + ParticleCount

\* C23: the tick that takes a nonelastic animation into 'compound' removes
\* the absorbed fragment from the scene, hides the target, and adds to the
\* scene one compound nucleus, one energy wave and one absorption flash,
\* which it records in compoundNucleus, energyWaves and effects
C23_EnterCompound ==
    [][(/\ currentAnimation.type = "nonelastic"
        /\ currentAnimation'.gen = currentAnimation.gen
        /\ currentAnimation.phase # "compound"
        /\ currentAnimation'.phase = "compound")
       => LET a == currentAnimation
              b == currentAnimation'
              absorbed == a.fragments[a.absorbedFragment].id
              wave == b.energyWaves[Len(b.energyWaves)]
              flash == b.effects[Len(b.effects)]
              added == Ids(b.compoundNucleus) \cup {wave.id, flash.id}
          IN  /\ op' = "update"
              /\ absorbed \in scene
              /\ targetVisible
              /\ ~targetVisible'
              /\ a.compoundNucleus = <<>>
              /\ Len(b.compoundNucleus) = 1
              /\ Len(b.energyWaves) = Len(a.energyWaves) + 1
              /\ Len(b.effects) = Len(a.effects) + 1
              /\ flash.kind = "flash"
              /\ Cardinality(added) = 3
              /\ added \cap scene = {}
              /\ scene' = (scene \ {absorbed}) \cup added]_vars

\* the compound nucleus has just formed: the target is hidden, the absorbed
\* fragment is out of the scene and the three effects are in it
C23_Witness ==
    /\ currentAnimation.type = "nonelastic"
    /\ op = "update"
    /\ prevPhase = "breakup"
    /\ currentAnimation.phase = "compound"
    /\ ~targetVisible
    /\ currentAnimation.fragments[currentAnimation.absorbedFragment].id
          \notin scene
    /\ Len(currentAnimation.compoundNucleus) = 1
    /\ Ids(currentAnimation.compoundNucleus) \subseteq scene
    /\ Len(currentAnimation.energyWaves) = 1
    /\ Ids(currentAnimation.energyWaves) \subseteq scene

\* C24: the tick that takes a nonelastic animation into 'decay' leaves no
\* compound nucleus in the animation or in the scene and the target
\* visible, and adds to the scene and to energyWaves one energy wave and,
\* to the scene and to gammaRays, 2 gamma rays (besides those of a cascade
\* of the same tick)
C24_EnterDecay ==
    [][(/\ currentAnimation.type = "nonelastic"
        /\ currentAnimation'.gen = currentAnimation.gen
        /\ currentAnimation.phase # "decay"
        /\ currentAnimation'.phase = "decay")
       => LET a == currentAnimation
              b == currentAnimation'
              wave == b.energyWaves[Len(b.energyWaves)]
              gammas == Ids(b.gammaRays) \ Ids(a.gammaRays)
          IN  /\ op' = "update"
              /\ b.compoundNucleus = <<>>
              /\ Ids(a.compoundNucleus) \cap scene' = {}
              /\ targetVisible'
              /\ Len(b.energyWaves) = Len(a.energyWaves) + 1
              /\ wave.id \notin scene
              /\ wave.id \in scene'
              /\ b.cascades = a.cascades => Cardinality(gammas) = 2
              /\ gammas \cap scene = {}
              /\ gammas \subseteq scene'
              /\ scene' \ scene = gammas \cup {wave.id}]_vars

\* the decay phase has just begun with a compound nucleus that was still
\* alive: it is gone, the target is back, and the final wave and two
\* gamma rays are in the scene
C24_Witness ==
    /\ currentAnimation.type = "nonelastic"
    /\ op = "update"
    /\ prevPhase = "compound"
    /\ currentAnimation.phase = "decay"
    /\ targetVisible
    /\ currentAnimation.compoundNucleus = <<>>
    /\ Len(currentAnimation.energyWaves) = 2
    /\ currentAnimation.energyWaves[2].currentRadius = 100
    /\ currentAnimation.energyWaves[2].id \in scene
    /\ Len(currentAnimation.gammaRays) >= 2
    /\ LET n == Len(currentAnimation.gammaRays)
       IN  \A i \in {n - 1, n} :
               /\ currentAnimation.gammaRays[i].pos = 0
               /\ currentAnimation.gammaRays[i].id \in scene

\* C25: on the tick of an inelastic animation that finds the excited
\* target dead, the effect leaves the scene, excitedTarget is cleared,
\* the target becomes visible, and exactly 2 gamma rays and one energy
\* wave are added to the scene, to gammaRays and to energyWaves; an
\* animation in 'escape' without excited target never gets one again, so
\* this happens at most once
C25_Deexcitation ==
    [][(/\ currentAnimation.type = "inelastic"
        /\ currentAnimation'.gen = currentAnimation.gen)
       => LET a == currentAnimation
              b == currentAnimation'
              gammas == Ids(b.gammaRays) \ Ids(a.gammaRays)
              waves == Ids(b.energyWaves) \ Ids(a.energyWaves)
          IN  /\ (a.excitedTarget # <<>> /\ b.excitedTarget = <<>>)
                  => /\ op' = "update"
                     /\ a.phase = "escape"
                     /\ a.excitedTarget[1].life - a.excitedTarget[1].decay <= 0
                     /\ a.excitedTarget[1].id \in scene
                     /\ a.excitedTarget[1].id \notin scene'
                     /\ ~targetVisible
                     /\ targetVisible'
                     /\ Cardinality(gammas) = 2
                     /\ Cardinality(waves) = 1
                     /\ (gammas \cup waves) \cap scene = {}
                     /\ scene' \ scene = gammas \cup waves
              /\ (a.excitedTarget = <<>> /\ a.phase # "approach")
                  => /\ b.excitedTarget = <<>>
                     /\ Ids(b.gammaRays) \subseteq Ids(a.gammaRays)
                     /\ Ids(b.energyWaves) \subseteq Ids(a.energyWaves)]_vars

\* the excited target has just died in 'escape': the target is visible
\* again and the two gamma rays and the wave of the de-excitation are in
\* the scene
C25_Witness ==
    /\ currentAnimation.type = "inelastic"
    /\ op = "update"
    /\ currentAnimation.phase = "escape"
    /\ currentAnimation.excitedTarget = <<>>
    /\ targetVisible
    /\ Len(currentAnimation.gammaRays) >= 2
    /\ Len(currentAnimation.energyWaves) >= 1
    /\ LET n == Len(currentAnimation.gammaRays)
           wave == currentAnimation.energyWaves[Len(currentAnimation.energyWaves)]
       IN  /\ \A i \in {n - 1, n} :
                  /\ currentAnimation.gammaRays[i].life
                        = FullLife - currentAnimation.gammaRays[i].decay
                  /\ currentAnimation.gammaRays[i].id \in scene
           /\ wave.life = FullLife - wave.decay
           /\ wave.maxRadius = 6000
           /\ wave.id \in scene

\* C26: a tick of a nonelastic animation in the legacy 'absorption' phase
\* leaves the effects, the scene's share of them, the fragments, the trails
\* and the completion as a tick in 'decay' from the same state leaves them
C26_AbsorptionAsDecay ==
    [][(/\ currentAnimation.type = "nonelastic"
        /\ currentAnimation.phase = "absorption"
        /\ isPlaying
        /\ op' = "update")
       => LET a == currentAnimation
              b == currentAnimation'
              w == [a |-> [a EXCEPT !.phase = "decay"], scene |-> scene,
                    vis |-> targetVisible]
              d == updateNonelasticBreakup(w, speed, trailsEnabled,
                                           [i \in 1 .. ParticleCount |-> 20], 3)
          IN  /\ b.effects = d.a.effects
              /\ scene' \cap Ids(a.effects) = d.scene \cap Ids(a.effects)
              /\ b.fragments = d.a.fragments
              /\ b.trails = d.a.trails
              /\ b.time = d.a.time
              /\ (b.phase = "complete") <=> (d.a.phase = "complete")
              /\ (b.phase # "complete")
                  => (b.phase = "absorption" /\ d.a.phase = "decay")
              /\ (ret' = "true") <=> d.done]_vars

\* an 'absorption' tick has just removed the dead absorption flash from the
\* effects and from the scene while the escaping fragment is on its way
C26_Witness ==
    /\ currentAnimation.type = "nonelastic"
    /\ op = "update"
    /\ prevPhase = "absorption"
    /\ currentAnimation.phase = "absorption"
    /\ \A i \in 1 .. Len(currentAnimation.effects) :
           currentAnimation.effects[i].kind # "flash"
    /\ <<1, 4 + ParticleCount>> \notin scene
    /\ Len(currentAnimation.trails[1].points) = TrailLen

\* C27: a tick of a playing, uncompleted animation whose effects hold null
\* or an object without userData drops that entry from the effects and
\* raises no exception: the tick is not abandoned and playback goes on
C27_MissingDataDropped ==
    [][(/\ op' = "update"
        /\ currentAnimation.gen # 0
        /\ isPlaying
        /\ currentAnimation.phase # "complete"
        /\ \E i \in 1 .. Len(currentAnimation.effects) :
               LacksData(currentAnimation.effects[i]))
       => /\ \A i \in 1 .. Len(currentAnimation'.effects) :
                ~LacksData(currentAnimation'.effects[i])
          /\ ~faulted'
          /\ isPlaying']_vars

\* the effect held for the update operations, whatever its kind
HeldEffect(a) ==
    IF a.gammaRays # <<>> THEN a.gammaRays[1]
    ELSE IF a.energyWaves # <<>> THEN a.energyWaves[1]
    ELSE IF a.compoundNucleus # <<>> THEN a.compoundNucleus[1]
    ELSE IF a.excitedTarget # <<>> THEN a.excitedTarget[1]
    ELSE a.effects[1]

\* life is used up, or the wave has reached its largest radius
Spent(a) ==
    \/ HeldEffect(a).life <= 0
    \/ /\ a.energyWaves # <<>>
       /\ a.energyWaves[1].currentRadius >= a.energyWaves[1].maxRadius

\* C28: an update of an effect takes its decay (0.03 for an absorption
\* flash) from its life, grows an energy wave by 0.15, and returns true
\* exactly when the resulting life is above 0 and the wave still smaller
\* than its largest radius; life never grows, and an effect that an update
\* left dead is reported dead by every later update
C28_EffectUpdate ==
    [][LET a == currentAnimation
           b == currentAnimation'
           e == HeldEffect(a)
           f == HeldEffect(b)
           isWave == a.energyWaves # <<>>
       IN  /\ f.life = e.life - (IF a.effects # <<>> THEN 30 ELSE e.decay)
           /\ f.life < e.life
           /\ isWave => f.currentRadius = e.currentRadius + 150
           /\ (ret' = "true")
                 <=> (f.life > 0 /\ (isWave => f.currentRadius < f.maxRadius))
           /\ Spent(a) => ret' = "false"
           /\ op' = CASE a.gammaRays # <<>> -> "updateGammaRay"
                      [] isWave -> "updateEnergyWave"
                      [] a.compoundNucleus # <<>> -> "updateCompoundNucleus"
                      [] a.excitedTarget # <<>> -> "updateExcitedTarget"
                      [] OTHER -> "updateAbsorptionFlash"]_vars

\* a wave that outgrew its largest radius with life to spare has been
\* updated once more and reported dead again
C28_Witness ==
    /\ op = "updateEnergyWave"
    /\ ret = "false"
    /\ currentAnimation.energyWaves[1].life > 0
    /\ currentAnimation.energyWaves[1].currentRadius
         >= currentAnimation.energyWaves[1].maxRadius + 150

\* C29: the statements of a frame follow one another without anything in
\* between: the update of the hero animator, the rendering of its scene,
\* then the same for the elastic and for the nonelastic animator, so each
\* animator is updated once in a frame and its scene is rendered right
\* after its update has returned; the update advances the time of a
\* playing animation by 0.016 times the speed
C29_FrameOrder ==
    [][/\ op' = "update"
           => op \notin {"update", "render", "elastic.update",
                         "elastic.render", "nonelastic.update", "reset"}
       /\ op' = "render" <=> op = "update"
       /\ op' = "elastic.update" <=> op = "render"
       /\ op' = "elastic.render" <=> op = "elastic.update"
       /\ op' = "nonelastic.update" <=> op = "elastic.render"
       /\ op' = "nonelastic.render" <=> op = "nonelastic.update"
       /\ op' = "update" => frame' # frame
       /\ op' # "update" => frame' = frame
       /\ op' \in {"render", "elastic.render", "nonelastic.render"}
           => /\ scene' = scene
              /\ currentAnimation' = currentAnimation
       /\ (op' = "update" /\ currentAnimation.gen # 0 /\ isPlaying)
           => \/ currentAnimation'.time
                   = currentAnimation.time + (160 * speed) \div 10
              \/ currentAnimation'.time = TimeCap]_vars

\* a frame has been run to its end in the middle of an animation
C29_Witness ==
    /\ op = "nonelastic.render"
    /\ isPlaying
    /\ currentAnimation.phase = "compound"
    /\ prevPhase = "breakup"
    /\ ret = "false"
    /\ currentAnimation.resonanceTime = 0

\* C30: the scene of an animator that has a current animation is changed
\* by the animator alone, in update or in reset: the start handler resets
\* the animator first, and swaps the projectiles, creates the animation
\* and plays it while the animator has none
C30_SceneOwner ==
    [][/\ (scene' # scene /\ currentAnimation.gen # 0)
           => op' \in {"update", "reset"}
       /\ op' = "start"
           => /\ op = "reset"
              /\ currentAnimation.gen = 0
              /\ currentAnimation'.gen = nextGen
              /\ isPlaying'
              /\ scene' \ scene = {<<nextGen, 0>>}
              /\ scene \ scene' \subseteq {IdleProjectile, <<nextGen - 1, 0>>}
       /\ op = "reset" => op' = "start"]_vars

\* the start button was clicked a second time while the first animation
\* was under way: the second one plays in a scene that holds nothing of
\* the first
C30_Witness ==
    /\ op = "start"
    /\ nextGen = 3
    /\ currentAnimation.gen = 2
    /\ isPlaying
    /\ scene = {<<2, 0>>}
    /\ targetVisible

\* C31: completion is signalled once and one tick late: the update that
\* sets the phase to 'complete' without raising an exception returns false
\* and leaves the animation playing, the update that finds a playing
\* animation complete returns true and stops it, and an update of a
\* complete animation that is not playing returns false and leaves it so
C31_LateSignal ==
    [][(/\ op' = "update"
        /\ currentAnimation.gen # 0
        /\ ~faulted')
       => LET a == currentAnimation
              b == currentAnimation'
          IN  /\ (isPlaying /\ a.phase # "complete" /\ b.phase = "complete")
                  => (ret' = "false" /\ isPlaying')
              /\ (isPlaying /\ a.phase = "complete")
                  => (ret' = "true" /\ ~isPlaying' /\ b.phase = "complete")
              /\ (~isPlaying /\ a.phase = "complete")
                  => (ret' = "false" /\ ~isPlaying' /\ b = a)]_vars

\* the update after the one that returned true has returned false
C31_Witness ==
    /\ op = "update"
    /\ ret = "false"
    /\ currentAnimation.phase = "complete"
    /\ prevPhase = "complete"
    /\ ~isPlaying
    /\ ~faulted
    /\ currentAnimation.type = "elastic"

\* C32: while a nonelastic animation is in phase 'compound' its
\* compound-nucleus effect exists and is in the scene, whatever the speed
C32_NucleusThroughCompound ==
    (currentAnimation.type = "nonelastic" /\ currentAnimation.phase = "compound")
        => /\ Len(currentAnimation.compoundNucleus) = 1
           /\ currentAnimation.compoundNucleus[1].id \in scene

\* C33: after every update of a nonelastic animation that raised no
\* exception the target is hidden exactly when the phase is 'compound'
C33_HiddenInCompound ==
    (/\ op = "update"
     /\ currentAnimation.type = "nonelastic"
     /\ ~faulted)
        => (targetVisible = FALSE <=> currentAnimation.phase = "compound")

\* the tick that enters 'decay' has shown the target again
C33_Witness ==
    /\ op = "update"
    /\ currentAnimation.type = "nonelastic"
    /\ ~faulted
    /\ prevPhase = "compound"
    /\ currentAnimation.phase = "decay"
    /\ targetVisible

\* C34: after every update of an inelastic animation the target is hidden
\* exactly when the animation holds an excited-target effect
C34_HiddenWhileExcited ==
    (op = "update" /\ currentAnimation.type = "inelastic")
        => (targetVisible = FALSE <=> currentAnimation.excitedTarget # <<>>)

\* the excited target has died in 'escape' and the target is shown again
C34_Witness ==
    /\ op = "update"
    /\ currentAnimation.type = "inelastic"
    /\ currentAnimation.phase = "escape"
    /\ currentAnimation.excitedTarget = <<>>
    /\ currentAnimation.fragments # <<>>
    /\ currentAnimation.gammaRays # <<>>
    /\ targetVisible

\* C35: stop() changes isPlaying only: the current animation with its phase,
\* time, positions and collections, the scene and the visibility of the
\* target stay as they are; updates on the stopped animation change none of
\* them either, and play() with the same animation sets isPlaying and
\* leaves them alone, so that the next tick goes on from where stop() left
C35_StopResume ==
    [][/\ op' = "stop"
          => /\ ~isPlaying'
             /\ <<currentAnimation, scene, targetVisible, speed>>'
                    = <<currentAnimation, scene, targetVisible, speed>>
       /\ (op' = "update" /\ ~isPlaying)
          => /\ ~isPlaying'
             /\ <<currentAnimation, scene, targetVisible, speed>>'
                    = <<currentAnimation, scene, targetVisible, speed>>
       /\ (op' = "play" /\ pending.gen = 0)
          => /\ isPlaying'
             /\ <<currentAnimation, scene, targetVisible, speed>>'
                    = <<currentAnimation, scene, targetVisible, speed>>]_vars

\* stop was called in the middle of 'compound', the target hidden and the
\* compound nucleus on display
C35_Witness ==
    /\ op = "stop"
    /\ ~isPlaying
    /\ currentAnimation.phase = "compound"
    /\ currentAnimation.resonanceTime > 0
    /\ ~targetVisible
    /\ Ids(currentAnimation.compoundNucleus) \cap scene # {}

\* C36: in an elastic or inelastic animation the explosion particles made
\* at the breakup are never advanced and never removed by update: from the
\* breakup on all of them are in animation.effects and in the scene, with
\* life 1.0 and at the place where they were made
C36_BurstUntouched ==
    currentAnimation.type \in {"elastic", "inelastic"} =>
        /\ \A i \in 1 .. Len(currentAnimation.effects) :
               /\ currentAnimation.effects[i].kind = "explosion"
               /\ currentAnimation.effects[i].life = FullLife
               /\ currentAnimation.effects[i].pos = 0
               /\ currentAnimation.effects[i].vel = ExplosionSpeed
               /\ currentAnimation.effects[i].id \in scene
        /\ currentAnimation.fragments # <<>>
               => Len(currentAnimation.effects) = ParticleCount

\* an inelastic animation has returned its completion, the burst of its
\* breakup still in the scene
C36_Witness ==
    /\ currentAnimation.type = "inelastic"
    /\ op = "update"
    /\ ret = "true"
    /\ currentAnimation.phase = "complete"
    /\ Len(currentAnimation.effects) = ParticleCount
    /\ Ids(currentAnimation.effects) \subseteq scene
    /\ currentAnimation.effects[1].life = FullLife

\* C37: an inelastic tick in 'approach' that ends with the projectile at
\* 3.5 or more from the target, the target not excited before, excites
\* nothing: no fragment, no excited target, the scene and the target as
\* they were, and the phase is 'escape' once the projectile is beyond
\* target.x + 5; the first 'escape' tick of such an animation sets
\* 'complete' with no fragments, no excited target, the target visible
\* and the projectile in the scene
C37_PassWithoutExcitation ==
    [][(/\ op' = "update"
        /\ isPlaying
        /\ ~faulted'
        /\ currentAnimation.type = "inelastic"
        /\ currentAnimation.fragments = <<>>)
       => LET a == currentAnimation
              b == currentAnimation'
          IN  /\ (/\ a.phase = "approach"
                  /\ Dist(b.projectile.pos, TargetPos) >= ExcitationDist)
                 => /\ b.fragments = <<>>
                    /\ b.excitedTarget = <<>>
                    /\ targetVisible' = targetVisible
                    /\ scene' = scene
                    /\ b.phase = IF b.projectile.pos[1] > TargetX + PassOffset
                                 THEN "escape" ELSE "approach"
              /\ a.phase = "escape"
                 => /\ b.phase = "complete"
                    /\ ret' = "false"
                    /\ b.fragments = <<>>
                    /\ b.excitedTarget = <<>>
                    /\ targetVisible'
                    /\ b.projectile.id \in scene']_vars

\* the projectile has passed the target at a distance and the first
\* 'escape' tick has completed the animation
C37_Witness ==
    /\ op = "update"
    /\ currentAnimation.type = "inelastic"
    /\ prevPhase = "escape"
    /\ currentAnimation.phase = "complete"
    /\ currentAnimation.fragments = <<>>
    /\ currentAnimation.excitedTarget = <<>>
    /\ targetVisible
    /\ currentAnimation.projectile.id \in scene
    /\ currentAnimation.projectile.pos[1] > TargetX + PassOffset

\* C38: in the animator that has the phases 'compound' and 'decay' no call
\* of create, play, update, setSpeed, stop or reset leaves an animation in
\* phase 'absorption': an update leaves 'breakup' for 'compound' only,
\* with the compound nucleus created and without the burst of particles
\* that createAbsorptionEffect adds to the effects
C38_NeverAbsorption ==
    [][/\ currentAnimation'.phase # "absorption"
       /\ pending'.phase # "absorption"
       /\ (/\ op' = "update"
           /\ currentAnimation.type = "nonelastic"
           /\ currentAnimation.phase = "breakup"
           /\ currentAnimation'.phase # "breakup")
          => LET b == currentAnimation'
             IN  /\ b.phase = "compound"
                 /\ b.compoundNucleus # <<>>
                 /\ Cardinality({i \in 1 .. Len(b.effects) :
                                    b.effects[i].kind = "explosion"})
                        = ParticleCount]_vars

\* the update that absorbed the fragment has left 'breakup' for 'compound'
C38_Witness ==
    /\ op = "update"
    /\ currentAnimation.type = "nonelastic"
    /\ prevPhase = "breakup"
    /\ currentAnimation.phase = "compound"
    /\ currentAnimation.compoundNucleus # <<>>
    /\ Len(currentAnimation.effects) = ParticleCount + 1

====
